---- MODULE Spec2Model ----
(***************************************************************************)
(* Model of teqp's multi-fluid mixture model (multifluid.hpp): the         *)
(* binary-parameter resolver, the pairwise matrices built from it, and the *)
(* model adapters ("mutants") built on a base model.                       *)
(*                                                                         *)
(* Conventions.                                                            *)
(*  - A std::string is the tuple of its character codes (ASCII), so that   *)
(*    ::toupper acts on characters.                                        *)
(*  - A double is an exact rational <<num, den>> in lowest terms with      *)
(*    den >= 0; <<1, 0>> is +infinity (IEEE 1.0/0.0).                      *)
(*  - A nlohmann::json object is a function from its keys to its values;   *)
(*    a json null is JNull.                                                *)
(*  - A call that returns is Ok(value); a call that throws is Throw(what). *)
(*  - A metadata string is String(text), or dump(j) for a serialized j.    *)
(*  - Eigen matrices and nested vectors are functions over 0..N-1, as in   *)
(*    the source; components (a std::vector) is a sequence, so the         *)
(*    source's components[i] is components[i + 1].                         *)
(***************************************************************************)
EXTENDS Integers, Sequences, FiniteSets, TLC

VARIABLES collection, components, flags, ret, bid, model, mutant, threads

vars == <<collection, components, flags, ret, bid, model, mutant, threads>>

----------------------------------------------------------------------------
(* Bounds of the model *)

\* callers running at once on one instance
MaxThreads == 2
\* longest catalog of pairwise records
MaxCat == 2
\* largest number of components of a mixture
MaxN == 2
\* longest coefficient array of a term record
MaxLen == 2

----------------------------------------------------------------------------
(* Values *)

Zero == <<0, 1>>
One == <<1, 1>>
Rat(n, d) == <<n, d>>

\* 1.0 / x
Recip(x) == IF x[1] < 0 THEN <<-x[2], -x[1]>> ELSE <<x[2], x[1]>>
\* -x
Neg(x) == <<-x[1], x[2]>>

\* exact arithmetic on doubles: results in lowest terms, den >= 0; a zero
\* divisor gives +-infinity <<+-1, 0>> or NaN <<0, 0>> as in IEEE 754
RECURSIVE GCD(_, _)
GCD(a, b) == IF b = 0 THEN a ELSE GCD(b, a % b)
Abs(a) == IF a < 0 THEN -a ELSE a
Sign(a) == IF a < 0 THEN -1 ELSE IF a > 0 THEN 1 ELSE 0
Norm(n, d) ==
    IF d = 0 THEN <<Sign(n), 0>>
    ELSE LET g == GCD(Abs(n), Abs(d))
         IN <<Sign(d) * (n \div g), Abs(d) \div g>>
\* x + y, x * y, x / y; common factors are removed before multiplying
Plus(x, y) ==
    IF x[2] = 0 \/ y[2] = 0
    THEN (IF x[2] # 0 THEN y ELSE IF y[2] # 0 THEN x
          ELSE IF x[1] = y[1] THEN x ELSE <<0, 0>>)
    ELSE LET g == GCD(x[2], y[2])
         IN Norm(x[1] * (y[2] \div g) + y[1] * (x[2] \div g), (x[2] \div g) * y[2])
Times(x, y) ==
    IF x[2] = 0 \/ y[2] = 0 THEN <<Sign(x[1]) * Sign(y[1]), 0>>
    ELSE IF x[1] = 0 \/ y[1] = 0 THEN <<0, 1>>
    ELSE LET g1 == GCD(Abs(x[1]), y[2])
             g2 == GCD(Abs(y[1]), x[2])
         IN Norm((x[1] \div g1) * (y[1] \div g2), (x[2] \div g2) * (y[2] \div g1))
Over(x, y) ==
    IF y[2] = 0 THEN (IF x[2] = 0 THEN <<0, 0>> ELSE <<0, 1>>)
    ELSE IF y[1] = 0 THEN <<Sign(x[1]), 0>>
    ELSE Times(x, <<Sign(y[1]) * y[2], Abs(y[1])>>)
\* sqrt and cbrt, exact on the squares and cubes the fluid files hold
IRoot(n, k) == CHOOSE r \in 0..n : (IF k = 2 THEN r * r ELSE r * r * r) = n
sqrt(x) == <<IRoot(x[1], 2), IRoot(x[2], 2)>>
cbrt(x) == <<IRoot(x[1], 3), IRoot(x[2], 3)>>

JNull == <<>>
Ok(v) == [ok |-> TRUE, val |-> v]
Throw(what) == [ok |-> FALSE, err |-> what]

\* json::contains(key)
contains(j, key) == key \in DOMAIN j
\* json::operator[](key) on a non-const object: a missing key reads as null
JGet(j, key) == IF key \in DOMAIN j THEN j[key] ELSE JNull
\* json::empty()
empty(j) == DOMAIN j = {}

\* names as character codes
Me == <<77, 101>>
ME == <<77, 69>>
Et == <<69, 116>>
ET == <<69, 84>>
Pr == <<80, 114>>
CasMe == <<56, 50>>
CasEt == <<56, 52>>
CasPr == <<57, 56>>

----------------------------------------------------------------------------
(* MultiFluidReducingFunction: the binary-parameter resolver *)

\* the lambda toupper of get_BIPdep: ::toupper on every character
toupper(s) == [k \in DOMAIN s |-> IF s[k] \in 97..122 THEN s[k] - 32 ELSE s[k]]

\* the default returned when estimation is requested
EstimateDefault ==
    [betaT |-> One, gammaT |-> One, betaV |-> One, gammaV |-> One, F |-> Zero]

\* a lookup that accepts a record only in its stored order
RECURSIVE get_BIPdep_loop_stored_order(_, _, _, _)
get_BIPdep_loop_stored_order(coll, comp0, comp1, k) ==
    IF k > Len(coll)
    THEN Throw("invalid_argument: Can't match this binary pair")
    ELSE LET el == coll[k]
         IN IF comp0 = toupper(el["Name1"]) /\ comp1 = toupper(el["Name2"]) THEN Ok(el)
            ELSE get_BIPdep_loop_stored_order(coll, comp0, comp1, k + 1)

\* a lookup that falls back to the default when nothing matches
RECURSIVE get_BIPdep_loop_default_on_miss(_, _, _, _)
get_BIPdep_loop_default_on_miss(coll, comp0, comp1, k) ==
    IF k > Len(coll)
    THEN Ok(EstimateDefault)
    ELSE LET el == coll[k]
             name1 == toupper(el["Name1"])
             name2 == toupper(el["Name2"])
         IN IF comp0 = name1 /\ comp1 = name2 THEN Ok(el)
            ELSE IF comp0 = name2 /\ comp1 = name1 THEN Ok(el)
            ELSE get_BIPdep_loop_default_on_miss(coll, comp0, comp1, k + 1)

RECURSIVE get_BIPdep_loop(_, _, _, _)
get_BIPdep_loop(coll, comp0, comp1, k) ==
    IF k > Len(coll)
    THEN Throw("invalid_argument: Can't match this binary pair")
    ELSE LET el == coll[k]
             name1 == toupper(el["Name1"])
             name2 == toupper(el["Name2"])
         IN IF comp0 = name1 /\ comp1 = name2 THEN Ok(el)
            ELSE IF comp0 = name2 /\ comp1 = name1 THEN Ok(el)
            ELSE get_BIPdep_loop(coll, comp0, comp1, k + 1)

\* a resolver that only looks the pair up, whatever the flags
get_BIPdep_lookup_only(coll, comps, fl) ==
    get_BIPdep_loop(coll, toupper(comps[1]), toupper(comps[2]), 1)

get_BIPdep(coll, comps, fl) ==
    IF contains(fl, "estimate")
    THEN Ok(EstimateDefault)
    ELSE get_BIPdep_loop(coll, toupper(comps[1]), toupper(comps[2]), 1)

get_binary_interaction_double(coll, comps, fl) ==
    LET r == get_BIPdep(coll, comps, fl)
    IN IF ~r.ok THEN r
       ELSE LET el == r.val
                backwards == comps[1] = JGet(el, "Name2") /\ comps[2] = JGet(el, "Name1")
                betaT == IF backwards THEN Recip(el["betaT"]) ELSE el["betaT"]
                betaV == IF backwards THEN Recip(el["betaV"]) ELSE el["betaV"]
            IN Ok(<<betaT, el["gammaT"], betaV, el["gammaV"]>>)

----------------------------------------------------------------------------
(* Departure terms: build_departure_function *)

\* json::size(): the length of an array, 0 for null
size(a) == Len(a)
\* toeig: a json array of numbers as an Eigen array
toeig(a) == a
\* all_same_length: the named fields of the record all have one length
all_same_length(term, keys) ==
    \A a, b \in keys : size(JGet(term, a)) = size(JGet(term, b))
\* Eigen head(k) and tail(k)
head(a, k) == SubSeq(a, 1, k)
tail(a, k) == SubSeq(a, Len(a) - k + 1, Len(a))
\* Eigen::ArrayXd::Zero(N)
ZeroArray(N) == [k \in 1..N |-> Zero]
\* x > 0 for a double
IsPositive(x) == x[1] > 0 /\ x[2] >= 0
\* static_cast<int> of a double: truncation toward zero
CastInt(x) == IF x[1] >= 0 THEN x[1] \div x[2] ELSE -((-x[1]) \div x[2])

NullEOSTerm == [kind |-> "Null"]

\* the lambda build_power of build_departure_function
build_power(term) ==
    LET N == size(JGet(term, "n"))
        eigorzero(name) ==
            IF ~empty(JGet(term, name)) THEN toeig(term[name]) ELSE ZeroArray(N)
        noL == empty(JGet(term, "l"))
        l == IF noL THEN ZeroArray(N) ELSE toeig(term["l"])
        c == [k \in 1..N |-> IF ~noL /\ IsPositive(l[k]) THEN One ELSE Zero]
        l_i == [k \in DOMAIN l |-> CastInt(l[k])]
    IN IF noL /\ ~all_same_length(term, {"n", "t", "d"})
       THEN Throw("invalid_argument: Lengths are not all identical in polynomial term")
       ELSE IF ~noL /\ ~all_same_length(term, {"n", "t", "d", "l"})
       THEN Throw("invalid_argument: Lengths are not all identical in exponential term")
       ELSE IF \E k \in DOMAIN l : Rat(l_i[k], 1) # l[k]
       THEN Throw("invalid_argument: Non-integer entry in l found")
       ELSE Ok([kind |-> "Power", n |-> eigorzero("n"), t |-> eigorzero("t"),
                d |-> eigorzero("d"), c |-> c, l |-> l, l_i |-> l_i])

\* the leading Power sub-term of the two composite builders
composite_power(term, Npower) ==
    LET n == head(toeig(term["n"]), Npower)
        l == IF contains(term, "l") THEN head(toeig(term["l"]), Npower)
             ELSE [k \in DOMAIN n |-> Zero]
    IN [kind |-> "Power", n |-> n,
        t |-> head(toeig(term["t"]), Npower), d |-> head(toeig(term["d"]), Npower),
        c |-> [k \in DOMAIN l |-> IF IsPositive(l[k]) THEN One ELSE Zero],
        l |-> l, l_i |-> [k \in DOMAIN l |-> CastInt(l[k])]]

\* a trailing sub-term sliced from the front of the arrays
composite_tail_from_front(kind, term, Ntail) ==
    [kind |-> kind,
     n |-> head(toeig(term["n"]), Ntail), t |-> head(toeig(term["t"]), Ntail),
     d |-> head(toeig(term["d"]), Ntail), eta |-> head(toeig(term["eta"]), Ntail),
     beta |-> head(toeig(term["beta"]), Ntail), gamma |-> head(toeig(term["gamma"]), Ntail),
     epsilon |-> head(toeig(term["epsilon"]), Ntail)]

\* the trailing Gaussian-type sub-term of the two composite builders
composite_tail(kind, term, Ntail) ==
    [kind |-> kind,
     n |-> tail(toeig(term["n"]), Ntail), t |-> tail(toeig(term["t"]), Ntail),
     d |-> tail(toeig(term["d"]), Ntail), eta |-> tail(toeig(term["eta"]), Ntail),
     beta |-> tail(toeig(term["beta"]), Ntail), gamma |-> tail(toeig(term["gamma"]), Ntail),
     epsilon |-> tail(toeig(term["epsilon"]), Ntail)]

\* the lambda build_GERG2004: appends a Power and a GERG2004 term to dep
build_GERG2004(term, dep) ==
    IF ~all_same_length(term, {"n", "t", "d", "eta", "beta", "gamma", "epsilon"})
    THEN Throw("invalid_argument: Lengths are not all identical in GERG term")
    ELSE LET Npower == term["Npower"]
             NGERG == size(term["n"]) - Npower
         IN Ok(dep \o <<composite_power(term, Npower),
                         composite_tail("GERG2004", term, NGERG)>>)

\* the lambda build_GaussianExponential: appends a Power and a Gaussian term
build_GaussianExponential(term, dep) ==
    IF ~all_same_length(term, {"n", "t", "d", "eta", "beta", "gamma", "epsilon"})
    THEN Throw("invalid_argument: Lengths are not all identical in Gaussian+Exponential term")
    ELSE LET Npower == term["Npower"]
             NGauss == size(term["n"]) - Npower
         IN Ok(dep \o <<composite_power(term, Npower),
                         composite_tail("Gaussian", term, NGauss)>>)

\* a DepartureTerms collection is the sequence of its terms
build_departure_function(j) ==
    LET type == j["type"]
    IN IF type = "Exponential"
       THEN LET p == build_power(j) IN IF p.ok THEN Ok(<<p.val>>) ELSE p
       ELSE IF type = "GERG-2004" \/ type = "GERG-2008" THEN build_GERG2004(j, <<>>)
       ELSE IF type = "Gaussian+Exponential" THEN build_GaussianExponential(j, <<>>)
       ELSE IF type = "none" THEN Ok(<<NullEOSTerm>>)
       ELSE Throw("invalid_argument: Bad departure term type")

\* departure records
DepExponential ==
    [Name |-> "Methane-Ethane", type |-> "Exponential",
     n |-> <<Rat(1, 2), Rat(-3, 1)>>, t |-> <<Rat(1, 1), Rat(3, 2)>>,
     d |-> <<Rat(1, 1), Rat(2, 1)>>, l |-> <<Rat(0, 1), Rat(2, 1)>>]
DepGERG ==
    [Name |-> "Ethane-Propane", type |-> "GERG-2008", Npower |-> 1,
     n |-> <<Rat(1, 1), Rat(2, 1)>>, t |-> <<Rat(1, 1), Rat(1, 2)>>,
     d |-> <<Rat(1, 1), Rat(3, 1)>>, eta |-> <<Rat(0, 1), Rat(1, 1)>>,
     beta |-> <<Rat(0, 1), Rat(1, 1)>>, gamma |-> <<Rat(0, 1), Rat(1, 2)>>,
     epsilon |-> <<Rat(0, 1), Rat(1, 2)>>]
DepNone == [Name |-> "None", type |-> "none"]
DepBadType == [Name |-> "Bad", type |-> "Polynomial"]

\* the parsed content of dev/mixtures/mixture_departure_functions.json
depcollection == <<DepGERG, DepExponential>>

RECURSIVE get_departure_json_loop(_, _)
get_departure_json_loop(Name, k) ==
    IF k > Len(depcollection) THEN Throw("invalid_argument: Bad argument")
    ELSE IF depcollection[k]["Name"] = Name THEN Ok(depcollection[k])
    ELSE get_departure_json_loop(Name, k + 1)

\* the lambda get_departure_json of get_departure_function_matrix
get_departure_json(Name) == get_departure_json_loop(Name, 1)

----------------------------------------------------------------------------
(* Pure-component terms: get_EOS_terms *)

allowed_types ==
    <<"ResidualHelmholtzPower", "ResidualHelmholtzGaussian",
      "ResidualHelmholtzNonAnalytic", "ResidualHelmholtzGaoB",
      "ResidualHelmholtzLemmon2005", "ResidualHelmholtzExponential">>
\* the lambda isallowed
isallowed(conventional_types, name) ==
    \E k \in DOMAIN conventional_types : name = conventional_types[k]

\* a result whose computation read past the end of an array
PastEnd(r) == r @@ [ub |-> TRUE]
IsPastEnd(r) == "ub" \in DOMAIN r

\* the lambda build_power of get_EOS_terms: no check of the lengths; the loop
\* over c reads l[i] for every i < N, and garbage is what a read past the
\* end of l yields
EOS_build_power(term, garbage) ==
    LET N == size(JGet(term, "n"))
        eigorzero(name) ==
            IF ~empty(JGet(term, name)) THEN toeig(term[name]) ELSE ZeroArray(N)
        noL == empty(JGet(term, "l"))
        l == IF noL THEN ZeroArray(N) ELSE toeig(term["l"])
        lread(k) == IF k \in DOMAIN l THEN l[k] ELSE garbage
        c == [k \in 1..N |-> IF ~noL /\ IsPositive(lread(k)) THEN One ELSE Zero]
        l_i == [k \in DOMAIN l |-> CastInt(l[k])]
        r == IF \E k \in DOMAIN l : Rat(l_i[k], 1) # l[k]
             THEN Throw("invalid_argument: Non-integer entry in l found")
             ELSE Ok([kind |-> "Power", n |-> eigorzero("n"), t |-> eigorzero("t"),
                      d |-> eigorzero("d"), c |-> c, l |-> l, l_i |-> l_i])
    IN IF size(l) < N THEN PastEnd(r) ELSE r

\* the fields of a record as Eigen arrays
eig_fields(term, keys) == [key \in keys |-> toeig(JGet(term, key))]

build_Lemmon2005(term) ==
    LET l == toeig(JGet(term, "l"))
        l_i == [k \in DOMAIN l |-> CastInt(l[k])]
    IN IF ~all_same_length(term, {"n", "t", "d", "m", "l"})
       THEN Throw("invalid_argument: Lengths are not all identical in Lemmon2005 term")
       ELSE IF \E k \in DOMAIN l : Rat(l_i[k], 1) # l[k]
       THEN Throw("invalid_argument: Non-integer entry in l found")
       ELSE Ok([kind |-> "Lemmon2005", l_i |-> l_i]
                  @@ eig_fields(term, {"n", "t", "d", "m", "l"}))

build_gaussian(term) ==
    IF ~all_same_length(term, {"n", "t", "d", "eta", "beta", "gamma", "epsilon"})
    THEN Throw("invalid_argument: Lengths are not all identical in Gaussian term")
    ELSE Ok([kind |-> "Gaussian"]
               @@ eig_fields(term, {"n", "t", "d", "eta", "beta", "gamma", "epsilon"}))

build_exponential(term) ==
    LET l == toeig(JGet(term, "l"))
    IN IF ~all_same_length(term, {"n", "t", "d", "g", "l"})
       THEN Throw("invalid_argument: Lengths are not all identical in exponential term")
       ELSE Ok([kind |-> "Exponential", l_i |-> [k \in DOMAIN l |-> CastInt(l[k])]]
                  @@ eig_fields(term, {"n", "t", "d", "g", "l"}))

build_GaoB(term) ==
    LET eta == toeig(JGet(term, "eta"))
    IN IF ~all_same_length(term, {"n", "t", "d", "eta", "beta", "gamma", "epsilon", "b"})
       THEN Throw("invalid_argument: Lengths are not all identical in GaoB term")
       ELSE Ok([kind |-> "GaoB", eta |-> [k \in DOMAIN eta |-> Neg(eta[k])]]
                  @@ eig_fields(term, {"n", "t", "d", "beta", "gamma", "epsilon", "b"}))

build_na(term) ==
    IF ~all_same_length(term, {"n", "A", "B", "C", "D", "a", "b", "beta"})
    THEN Throw("invalid_argument: Lengths are not all identical in nonanalytic term")
    ELSE Ok([kind |-> "NonAnalytic"]
               @@ eig_fields(term, {"n", "A", "B", "C", "D", "a", "b", "beta"}))

\* the dispatch of the second loop of get_EOS_terms
build_term(term, garbage) ==
    LET type == term["type"]
    IN IF type = "ResidualHelmholtzPower" THEN EOS_build_power(term, garbage)
       ELSE IF type = "ResidualHelmholtzGaussian" THEN build_gaussian(term)
       ELSE IF type = "ResidualHelmholtzNonAnalytic" THEN build_na(term)
       ELSE IF type = "ResidualHelmholtzLemmon2005" THEN build_Lemmon2005(term)
       ELSE IF type = "ResidualHelmholtzGaoB" THEN build_GaoB(term)
       ELSE IF type = "ResidualHelmholtzExponential" THEN build_exponential(term)
       ELSE Throw("invalid_argument: Bad term type")

\* the second loop: terms are built in order until one throws
RECURSIVE get_EOS_terms_loop(_, _, _, _)
get_EOS_terms_loop(alphar, garbage, k, container) ==
    IF k > Len(alphar) THEN Ok(container)
    ELSE LET r == build_term(alphar[k], garbage)
             rest == get_EOS_terms_loop(alphar, garbage, k + 1,
                                        container \o <<r.val>>)
         IN IF ~r.ok THEN r
            ELSE IF IsPastEnd(r) /\ ~IsPastEnd(rest) THEN PastEnd(rest)
            ELSE rest

\* a builder that dispatches without validating the types first
get_EOS_terms_no_validation(alphar, garbage) ==
    get_EOS_terms_loop(alphar, garbage, 1, <<>>)

\* get_EOS_terms on the alphar array of the fluid file: every type is
\* validated before any term is built
get_EOS_terms(alphar, garbage) ==
    IF \E k \in DOMAIN alphar : ~isallowed(allowed_types, alphar[k]["type"])
    THEN Throw("invalid_argument: Bad type")
    ELSE get_EOS_terms_loop(alphar, garbage, 1, <<>>)

----------------------------------------------------------------------------
(* The pairwise matrices *)

Idx(N) == 0..(N - 1)
\* a matrix with every entry v
Filled(N, v) == [i \in Idx(N) |-> [j \in Idx(N) |-> v]]
\* the value of an entry that was never assigned
Uninit == <<0, 0>>

\* the pairs (i, j), i < j, in the order of the nested loops
UpperPairs(N) == {p \in Idx(N) \X Idx(N) : p[1] < p[2]}
Before(p, q) == p[1] < q[1] \/ (p[1] = q[1] /\ p[2] < q[2])
PairSeq(N) ==
    [k \in 1..Cardinality(UpperPairs(N)) |->
        CHOOSE p \in UpperPairs(N) :
            Cardinality({q \in UpperPairs(N) : Before(q, p)}) = k - 1]

\* the source's { components[i], components[j] }
PairOf(comps, p) == <<comps[p[1] + 1], comps[p[2] + 1]>>

RECURSIVE get_BIP_matrices_loop(_, _, _, _, _)
get_BIP_matrices_loop(coll, comps, fl, k, m) ==
    IF k > Len(PairSeq(Len(comps))) THEN Ok(m)
    ELSE LET i == PairSeq(Len(comps))[k][1]
             j == PairSeq(Len(comps))[k][2]
             r == get_binary_interaction_double(coll, PairOf(comps, <<i, j>>), fl)
         IN IF ~r.ok THEN r
            ELSE get_BIP_matrices_loop(coll, comps, fl, k + 1,
                    [betaT |-> [m.betaT EXCEPT ![i][j] = r.val[1], ![j][i] = Recip(r.val[1])],
                     gammaT |-> [m.gammaT EXCEPT ![i][j] = r.val[2], ![j][i] = r.val[2]],
                     betaV |-> [m.betaV EXCEPT ![i][j] = r.val[3], ![j][i] = Recip(r.val[3])],
                     gammaV |-> [m.gammaV EXCEPT ![i][j] = r.val[4], ![j][i] = r.val[4]]])

get_BIP_matrices(coll, comps, fl) ==
    LET N == Len(comps)
    IN get_BIP_matrices_loop(coll, comps, fl, 1,
          [betaT |-> Filled(N, Zero), gammaT |-> Filled(N, Zero),
           betaV |-> Filled(N, Zero), gammaV |-> Filled(N, Zero)])

RECURSIVE get_F_matrix_loop(_, _, _, _, _)
get_F_matrix_loop(coll, comps, fl, k, F) ==
    IF k > Len(PairSeq(Len(comps))) THEN Ok(F)
    ELSE LET i == PairSeq(Len(comps))[k][1]
             j == PairSeq(Len(comps))[k][2]
             r == get_BIPdep(coll, PairOf(comps, <<i, j>>), fl)
         IN IF ~r.ok THEN r
            ELSE IF empty(r.val)
            THEN get_F_matrix_loop(coll, comps, fl, k + 1,
                                   [F EXCEPT ![i][j] = Zero, ![j][i] = Zero])
            ELSE IF JGet(r.val, "F") = JNull
            THEN Throw("type_error: type must be number, but is null")
            ELSE get_F_matrix_loop(coll, comps, fl, k + 1,
                                   [F EXCEPT ![i][j] = r.val["F"], ![j][i] = r.val["F"]])

\* factors looked up in the catalog read from its end: of two records of one
\* pair the later one is found
get_F_matrix_last_record(coll, comps, fl) ==
    LET N == Len(comps)
    IN get_F_matrix_loop([k \in 1..Len(coll) |-> coll[Len(coll) + 1 - k]], comps, fl, 1,
          [i \in Idx(N) |-> [j \in Idx(N) |-> IF i = j THEN Zero ELSE Uninit]])

get_F_matrix(coll, comps, fl) ==
    LET N == Len(comps)
    IN get_F_matrix_loop(coll, comps, fl, 1,
          [i \in Idx(N) |-> [j \in Idx(N) |-> IF i = j THEN Zero ELSE Uninit]])

RECURSIVE get_departure_function_matrix_loop(_, _, _, _, _)
get_departure_function_matrix_loop(coll, comps, fl, k, funcs) ==
    IF k > Len(PairSeq(Len(comps))) THEN Ok(funcs)
    ELSE LET i == PairSeq(Len(comps))[k][1]
             j == PairSeq(Len(comps))[k][2]
             BIP == get_BIPdep(coll, PairOf(comps, <<i, j>>), fl)
             funcname == IF contains(BIP.val, "function") THEN BIP.val["function"] ELSE ""
             jj == get_departure_json(funcname)
             built == build_departure_function(jj.val)
         IN IF ~BIP.ok THEN BIP
            ELSE IF funcname # ""
            THEN IF ~jj.ok THEN jj
                 ELSE IF ~built.ok THEN built
                 ELSE get_departure_function_matrix_loop(coll, comps, fl, k + 1,
                         [funcs EXCEPT ![i][j] = built.val, ![j][i] = built.val])
            ELSE get_departure_function_matrix_loop(coll, comps, fl, k + 1,
                    [funcs EXCEPT ![i][j] = funcs[i][j] \o <<NullEOSTerm>>,
                                  ![j][i] = funcs[j][i] \o <<NullEOSTerm>>])

get_departure_function_matrix(coll, comps, fl) ==
    get_departure_function_matrix_loop(coll, comps, fl, 1, Filled(Len(comps), <<>>))

----------------------------------------------------------------------------
(* build_multifluid_model *)

\* a coefficient array of length L
CoefArray(L) == [k \in 1..L |-> Rat(2 * k + 1, 2)]

\* the fluid files under dev/fluids: reducing state and residual terms
FluidNames == {Me, Et, Pr}
FluidFile(name) ==
    IF name = Me
    THEN [T |-> Rat(4, 1), rhomolar |-> Rat(1, 1),
          alphar |-> <<[type |-> "ResidualHelmholtzPower", n |-> CoefArray(2),
                        t |-> CoefArray(2), d |-> CoefArray(2),
                        l |-> <<Zero, Rat(2, 1)>>]>>]
    ELSE IF name = Et
    THEN [T |-> Rat(9, 1), rhomolar |-> Rat(8, 1),
          alphar |-> <<[type |-> "ResidualHelmholtzPower", n |-> CoefArray(1),
                        t |-> CoefArray(1), d |-> CoefArray(1)],
                       [type |-> "ResidualHelmholtzGaussian", n |-> CoefArray(1),
                        t |-> CoefArray(1), d |-> CoefArray(1), eta |-> CoefArray(1),
                        beta |-> CoefArray(1), gamma |-> CoefArray(1),
                        epsilon |-> CoefArray(1)]>>]
    ELSE [T |-> Rat(16, 1), rhomolar |-> Rat(27, 1),
          alphar |-> <<[type |-> "ResidualHelmholtzPower", n |-> CoefArray(1),
                        t |-> CoefArray(1), d |-> CoefArray(1), l |-> <<One>>]>>]

get_Tcvc(comps) ==
    IF \E k \in DOMAIN comps : comps[k] \notin FluidNames
    THEN Throw("invalid_argument: Load path is invalid")
    ELSE Ok([Tc |-> [i \in Idx(Len(comps)) |-> FluidFile(comps[i + 1]).T],
             vc |-> [i \in Idx(Len(comps)) |-> Recip(FluidFile(comps[i + 1]).rhomolar)]])

\* one term collection per name, built from the fluid's alphar records (the
\* fluid files above are well formed: no array of theirs is read past its end)
get_EOSs(names) ==
    [i \in Idx(Len(names)) |-> get_EOS_terms(FluidFile(names[i + 1]).alphar, Zero).val]

\* x * x * x
cube(x) == Times(x, Times(x, x))
\* x * x
square(x) == Times(x, x)
\* sqrt(Tc[i] * Tc[j]) and 1.0 / 8.0 * cube(cbrt(vc[i]) + cbrt(vc[j]))
YTij(Tc, i, j) == sqrt(Times(Tc[i], Tc[j]))
Yvij(vc, i, j) == Times(Rat(1, 8), cube(Plus(cbrt(vc[i]), cbrt(vc[j]))))

\* the constructor of MultiFluidReducingFunction: YT and Yv are zero on the
\* diagonal and hold the scaled pair values elsewhere
MultiFluidReducingFunction(betaT, gammaT, betaV, gammaV, Tc, vc) ==
    [betaT |-> betaT, gammaT |-> gammaT, betaV |-> betaV, gammaV |-> gammaV,
     Tc |-> Tc, vc |-> vc,
     YT |-> [i \in DOMAIN Tc |-> [j \in DOMAIN Tc |->
                IF i = j THEN Zero
                ELSE Times(Times(betaT[i][j], gammaT[i][j]), YTij(Tc, i, j))]],
     Yv |-> [i \in DOMAIN Tc |-> [j \in DOMAIN Tc |->
                IF i = j THEN Zero
                ELSE Times(Times(betaV[i][j], gammaV[i][j]), Yvij(vc, i, j))]]]

\* a metadata string given by its text; json::dump gives one by the document
\* it serializes
String(text) == [text |-> text]

\* the constructor of MultiFluid: meta starts empty
MultiFluid(redfunc, corr, dep) ==
    [redfunc |-> redfunc, corr |-> corr, dep |-> dep, meta |-> String("")]

build_multifluid_model(comps, coll, fl) ==
    LET Tcvc == get_Tcvc(comps)
        F == get_F_matrix(coll, comps, fl)
        funcs == get_departure_function_matrix(coll, comps, fl)
        BIP == get_BIP_matrices(coll, comps, fl)
    IN IF ~Tcvc.ok THEN Tcvc
       ELSE IF ~F.ok THEN F
       ELSE IF ~funcs.ok THEN funcs
       ELSE IF ~BIP.ok THEN BIP
       ELSE Ok(MultiFluid(
                 MultiFluidReducingFunction(BIP.val.betaT, BIP.val.gammaT,
                     BIP.val.betaV, BIP.val.gammaV, Tcvc.val.Tc, Tcvc.val.vc),
                 [EOSs |-> get_EOSs(comps)],
                 [F |-> F.val, funcs |-> funcs.val]))

----------------------------------------------------------------------------
(* Model adapters: build_multifluid_mutant, build_multifluid_mutant_invariant *)

\* red.Tc.size()
DOMAIN_N(red) == Cardinality(DOMAIN red.Tc)

\* json::at(key): throws on a null and on a missing key
at(j, key) ==
    IF j = JNull THEN Throw("type_error: cannot use at() with null")
    ELSE IF ~contains(j, key) THEN Throw("out_of_range: key not found")
    ELSE Ok(j[key])

\* json::operator[](key) on a const object: throws on a null; a key that the
\* object does not hold is undefined behaviour
Undefined(what) == [ok |-> FALSE, ub |-> TRUE, err |-> what]
const_get(j, key) ==
    IF j = JNull THEN Throw("type_error: cannot use operator[] with null")
    ELSE IF ~contains(j, key)
    THEN Undefined("undefined: const operator[] with a key that is not found")
    ELSE Ok(j[key])
\* jj[std::to_string(i)][std::to_string(j)]
const_get2(jj, a, b) ==
    LET r == const_get(jj, a) IN IF ~r.ok THEN r ELSE const_get(r.val, b)

\* the first of the calls, in order, that throws
FirstThrow(calls) == calls[CHOOSE k \in DOMAIN calls :
                              ~calls[k].ok /\ \A m \in 1..(k - 1) : calls[m].ok]

\* json::dump(): the serialized document
dump(j) == [text_of |-> j]

\* the constructor of MultiFluidAdapter: a reference to the base, meta empty
MultiFluidAdapter(base, redfunc, depfunc) ==
    [base |-> base, redfunc |-> redfunc, depfunc |-> depfunc, meta |-> String("")]

\* a set_meta that also resets the matrices of the reducing function
set_meta_resetting_redfunc(m, meta) ==
    [m EXCEPT !.meta = meta,
              !.redfunc.YT = [i \in DOMAIN @ |-> [j \in DOMAIN @ |-> Zero]],
              !.redfunc.Yv = [i \in DOMAIN @ |-> [j \in DOMAIN @ |-> Zero]]]

\* MultiFluid::set_meta and MultiFluidAdapter::set_meta
set_meta(m, meta) == [m EXCEPT !.meta = meta]

\* the matrices both builders allocate: F zero, funcs empty but a Null term on
\* the diagonal
MutantF(N) == Filled(N, Zero)
MutantFuncs(N) ==
    [i \in Idx(N) |-> [j \in Idx(N) |-> IF i = j THEN <<NullEOSTerm>> ELSE <<>>]]

\* what one pass of either builder's loop reads from the document, in the
\* order of the code: jj[i][j], the four interaction parameters named by keys,
\* Fij, and the departure function built from the entry
mutant_entry_calls(jj, i, j, keys) ==
    LET found == const_get2(jj, ToString(i), ToString(j))
        entry == IF found.ok THEN found.val ELSE JNull
        BIP == JGet(entry, "BIP")
        dep == JGet(entry, "departure")
        built == IF dep = JNull
                 THEN Throw("type_error: cannot use operator[] with null")
                 ELSE build_departure_function(dep)
    IN <<found, at(BIP, keys[1]), at(BIP, keys[2]), at(BIP, keys[3]),
         at(BIP, keys[4]), at(BIP, "Fij"), built>>

\* a pass that assigns F(i, j) and leaves F(j, i) as it was
mutant_store_one_sided(red, s, i, j, calls) ==
    [betaT |-> [s.betaT EXCEPT ![i][j] = calls[2].val,
                               ![j][i] = Recip(red.betaT[i][j])],
     betaV |-> [s.betaV EXCEPT ![i][j] = calls[3].val,
                               ![j][i] = Recip(red.betaV[i][j])],
     gammaT |-> [s.gammaT EXCEPT ![i][j] = calls[4].val, ![j][i] = calls[4].val],
     gammaV |-> [s.gammaV EXCEPT ![i][j] = calls[5].val, ![j][i] = calls[5].val],
     F |-> [s.F EXCEPT ![i][j] = calls[6].val],
     funcs |-> [s.funcs EXCEPT ![i][j] = calls[7].val, ![j][i] = calls[7].val]]

\* the assignments of one pass of build_multifluid_mutant's loop
mutant_store(red, s, i, j, calls) ==
    [betaT |-> [s.betaT EXCEPT ![i][j] = calls[2].val,
                               ![j][i] = Recip(red.betaT[i][j])],
     betaV |-> [s.betaV EXCEPT ![i][j] = calls[3].val,
                               ![j][i] = Recip(red.betaV[i][j])],
     gammaT |-> [s.gammaT EXCEPT ![i][j] = calls[4].val, ![j][i] = calls[4].val],
     gammaV |-> [s.gammaV EXCEPT ![i][j] = calls[5].val, ![j][i] = calls[5].val],
     F |-> [s.F EXCEPT ![i][j] = calls[6].val, ![j][i] = calls[6].val],
     funcs |-> [s.funcs EXCEPT ![i][j] = calls[7].val, ![j][i] = calls[7].val]]

RECURSIVE build_multifluid_mutant_loop(_, _, _, _)
\* one pass of the loop over the pairs i < j: the first read that throws ends
\* the builder
mutant_pass(red, jj, k, s, i, j, calls) ==
    IF \E c \in DOMAIN calls : ~calls[c].ok THEN FirstThrow(calls)
    ELSE build_multifluid_mutant_loop(red, jj, k + 1, mutant_store(red, s, i, j, calls))

build_multifluid_mutant_loop(red, jj, k, s) ==
    IF k > Len(PairSeq(DOMAIN_N(red))) THEN Ok(s)
    ELSE mutant_pass(red, jj, k, s,
            PairSeq(DOMAIN_N(red))[k][1], PairSeq(DOMAIN_N(red))[k][2],
            mutant_entry_calls(jj, PairSeq(DOMAIN_N(red))[k][1],
                PairSeq(DOMAIN_N(red))[k][2],
                <<"betaT", "betaV", "gammaT", "gammaV">>))

\* an adapter returned without the document stored in it
mutant_adapter_without_meta(base, jj, r) ==
    IF ~r.ok THEN r
    ELSE Ok(MultiFluidAdapter(base,
               MultiFluidReducingFunction(r.val.betaT, r.val.gammaT,
                   r.val.betaV, r.val.gammaV, base.redfunc.Tc, base.redfunc.vc),
               [F |-> r.val.F, funcs |-> r.val.funcs]))

\* the adapter build_multifluid_mutant returns from the matrices r of its loop
mutant_adapter(base, jj, r) ==
    IF ~r.ok THEN r
    ELSE Ok(set_meta(
              MultiFluidAdapter(base,
                 MultiFluidReducingFunction(r.val.betaT, r.val.gammaT,
                     r.val.betaV, r.val.gammaV, base.redfunc.Tc, base.redfunc.vc),
                 [F |-> r.val.F, funcs |-> r.val.funcs]),
              dump(jj)))

build_multifluid_mutant(base, jj) ==
    mutant_adapter(base, jj,
        build_multifluid_mutant_loop(base.redfunc, jj, 1,
            [betaT |-> base.redfunc.betaT, gammaT |-> base.redfunc.gammaT,
             betaV |-> base.redfunc.betaV, gammaV |-> base.redfunc.gammaV,
             F |-> MutantF(DOMAIN_N(base.redfunc)),
             funcs |-> MutantFuncs(DOMAIN_N(base.redfunc))]))

\* the constructor of MultiFluidInvariantReducingFunction
MultiFluidInvariantReducingFunction(phiT, lambdaT, phiV, lambdaV, Tc, vc) ==
    [phiT |-> phiT, lambdaT |-> lambdaT, phiV |-> phiV, lambdaV |-> lambdaV,
     Tc |-> Tc, vc |-> vc,
     YT |-> [i \in DOMAIN Tc |-> [j \in DOMAIN Tc |-> YTij(Tc, i, j)]],
     Yv |-> [i \in DOMAIN Tc |-> [j \in DOMAIN Tc |-> Yvij(vc, i, j)]]]

\* the assignments of one pass of build_multifluid_mutant_invariant's loop
invariant_store(s, i, j, calls) ==
    [phiT |-> [s.phiT EXCEPT ![i][j] = calls[2].val, ![j][i] = calls[2].val],
     lambdaT |-> [s.lambdaT EXCEPT ![i][j] = calls[3].val,
                                   ![j][i] = Neg(calls[3].val)],
     phiV |-> [s.phiV EXCEPT ![i][j] = calls[4].val, ![j][i] = calls[4].val],
     lambdaV |-> [s.lambdaV EXCEPT ![i][j] = calls[5].val,
                                   ![j][i] = Neg(calls[5].val)],
     F |-> [s.F EXCEPT ![i][j] = calls[6].val, ![j][i] = calls[6].val],
     funcs |-> [s.funcs EXCEPT ![i][j] = calls[7].val, ![j][i] = calls[7].val]]

RECURSIVE build_multifluid_mutant_invariant_loop(_, _, _, _)
invariant_pass(red, jj, k, s, i, j, calls) ==
    IF \E c \in DOMAIN calls : ~calls[c].ok THEN FirstThrow(calls)
    ELSE build_multifluid_mutant_invariant_loop(red, jj, k + 1,
            invariant_store(s, i, j, calls))

build_multifluid_mutant_invariant_loop(red, jj, k, s) ==
    IF k > Len(PairSeq(DOMAIN_N(red))) THEN Ok(s)
    ELSE invariant_pass(red, jj, k, s,
            PairSeq(DOMAIN_N(red))[k][1], PairSeq(DOMAIN_N(red))[k][2],
            mutant_entry_calls(jj, PairSeq(DOMAIN_N(red))[k][1],
                PairSeq(DOMAIN_N(red))[k][2],
                <<"phiT", "lambdaT", "phiV", "lambdaV">>))

\* the adapter build_multifluid_mutant_invariant returns from the matrices r
\* of its loop
invariant_adapter(base, jj, r) ==
    IF ~r.ok THEN r
    ELSE Ok(set_meta(
              MultiFluidAdapter(base,
                 MultiFluidInvariantReducingFunction(r.val.phiT, r.val.lambdaT,
                     r.val.phiV, r.val.lambdaV, base.redfunc.Tc, base.redfunc.vc),
                 [F |-> r.val.F, funcs |-> r.val.funcs]),
              dump(jj)))

\* the matrices build_multifluid_mutant_invariant starts its loop from
invariant_start(red) ==
    [phiT |-> Filled(DOMAIN_N(red), One), lambdaT |-> red.gammaT,
     phiV |-> Filled(DOMAIN_N(red), One), lambdaV |-> Filled(DOMAIN_N(red), Zero),
     F |-> MutantF(DOMAIN_N(red)), funcs |-> MutantFuncs(DOMAIN_N(red))]

\* a mutant builder that does not look at the number of components
build_multifluid_mutant_invariant_any_N(base, jj) ==
    invariant_adapter(base, jj,
        build_multifluid_mutant_invariant_loop(base.redfunc, jj, 1,
            invariant_start(base.redfunc)))

build_multifluid_mutant_invariant(base, jj) ==
    IF DOMAIN_N(base.redfunc) # 2
    THEN Throw("invalid_argument: Only binary mixtures are currently supported with invariant departure functions")
    ELSE invariant_adapter(base, jj,
            build_multifluid_mutant_invariant_loop(base.redfunc, jj, 1,
                invariant_start(base.redfunc)))

----------------------------------------------------------------------------
(* Evaluation: alphar of a model and of an adapter *)

\* A value of alphar is a linear combination of evaluations of term
\* collections: the set of <<coefficient, evaluation>> with non-zero coefficient.
\* EOSTerms::alphar and DepartureTerms::alphar: the sum of the terms at
\* (tau, delta); the Null term and the empty collection contribute 0
TermsAlphar(terms, tau, delta) ==
    IF \A k \in DOMAIN terms : terms[k] = NullEOSTerm THEN {}
    ELSE {<<One, [terms |-> terms, tau |-> tau, delta |-> delta]>>}

\* DummyEOS::alphar: tau * delta, as a multiple of the constant 1
DummyEOS == <<[kind |-> "DummyEOS"]>>
Unit == [unit |-> TRUE]
DummyEOS_alphar(tau, delta) ==
    IF Times(tau, delta) = Zero THEN {} ELSE {<<Times(tau, delta), Unit>>}
\* e.alphar(tau, delta) for whatever the template was instantiated with
alphar_of(e, tau, delta) ==
    IF e # <<>> /\ e[1].kind = "DummyEOS" THEN DummyEOS_alphar(tau, delta)
    ELSE TermsAlphar(e, tau, delta)

Coef(a, e) == IF \E p \in a : p[2] = e THEN (CHOOSE p \in a : p[2] = e)[1] ELSE Zero
\* a + b and c * a on such values
LCPlus(a, b) ==
    {q \in {<<Plus(Coef(a, e), Coef(b, e)), e>> : e \in {p[2] : p \in a \cup b}} :
        q[1] # Zero}
LCTimes(c, a) == {q \in {<<Times(c, p[1]), p[2]>> : p \in a} : q[1] # Zero}

\* x = x + f[0]; x = x + f[1]; ... for the first n entries of f
RECURSIVE Accumulate(_, _, _)
Accumulate(f, n, x) == IF n = 0 THEN x ELSE Plus(Accumulate(f, n - 1, x), f[n - 1])
RECURSIVE AccumulateTerms(_, _)
AccumulateTerms(f, n) == IF n = 0 THEN {} ELSE LCPlus(AccumulateTerms(f, n - 1), f[n])

\* the number of entries of a vector indexed from 0
VecSize(z) == Cardinality(DOMAIN z)

CorrespondingStatesContribution_alphar(corr, tau, delta, molefracs) ==
    AccumulateTerms([k \in 1..VecSize(molefracs) |->
                        LCTimes(molefracs[k - 1],
                                alphar_of(corr.EOSs[k - 1], tau, delta))],
                    VecSize(molefracs))

\* a departure sum over every ordered pair i # j
DepartureContribution_alphar_both_orders(dep, tau, delta, molefracs) ==
    AccumulateTerms(
        [k \in 1..(VecSize(molefracs) * VecSize(molefracs)) |->
            LCTimes(Times(Times(molefracs[(k - 1) \div VecSize(molefracs)],
                                molefracs[(k - 1) % VecSize(molefracs)]),
                          dep.F[(k - 1) \div VecSize(molefracs)][(k - 1) % VecSize(molefracs)]),
                    IF (k - 1) \div VecSize(molefracs) = (k - 1) % VecSize(molefracs)
                    THEN {}
                    ELSE alphar_of(dep.funcs[(k - 1) \div VecSize(molefracs)]
                                            [(k - 1) % VecSize(molefracs)], tau, delta))],
        VecSize(molefracs) * VecSize(molefracs))

\* a departure sum that leaves the factor F(i, j) out
DepartureContribution_alphar_without_F(dep, tau, delta, molefracs) ==
    LET pairs == PairSeq(VecSize(molefracs))
    IN AccumulateTerms(
          [k \in DOMAIN pairs |->
              LCTimes(Times(molefracs[pairs[k][1]], molefracs[pairs[k][2]]),
                      alphar_of(dep.funcs[pairs[k][1]][pairs[k][2]], tau, delta))],
          Len(pairs))

DepartureContribution_alphar(dep, tau, delta, molefracs) ==
    LET pairs == PairSeq(VecSize(molefracs))
    IN AccumulateTerms(
          [k \in DOMAIN pairs |->
              LET i == pairs[k][1]
                  j == pairs[k][2]
              IN LCTimes(Times(Times(molefracs[i], molefracs[j]), dep.F[i][j]),
                         alphar_of(dep.funcs[i][j], tau, delta))],
          Len(pairs))

\* a reducing function that reads the entries below the diagonal
Y_lower_entries(z, Yc, beta, Yij) ==
    LET N == VecSize(z)
        pairs == PairSeq(N)
        sum1 == Accumulate([i \in Idx(N) |-> Times(square(z[i]), Yc[i])], N, Zero)
        sum2 == Accumulate(
                   [k \in Idx(Len(pairs)) |->
                       LET i == pairs[k + 1][1]
                           j == pairs[k + 1][2]
                       IN Times(Over(Times(Times(Times(Rat(2, 1), z[i]), z[j]),
                                           Plus(z[i], z[j])),
                                     Plus(Times(square(beta[j][i]), z[i]), z[j])),
                                Yij[j][i])],
                   Len(pairs), Zero)
    IN Plus(sum1, sum2)

\* MultiFluidReducingFunction::Y
Y(z, Yc, beta, Yij) ==
    LET N == VecSize(z)
        pairs == PairSeq(N)
        sum1 == Accumulate([i \in Idx(N) |-> Times(square(z[i]), Yc[i])], N, Zero)
        sum2 == Accumulate(
                   [k \in Idx(Len(pairs)) |->
                       LET i == pairs[k + 1][1]
                           j == pairs[k + 1][2]
                       IN Times(Over(Times(Times(Times(Rat(2, 1), z[i]), z[j]),
                                           Plus(z[i], z[j])),
                                     Plus(Times(square(beta[i][j]), z[i]), z[j])),
                                Yij[i][j])],
                   Len(pairs), Zero)
    IN Plus(sum1, sum2)

\* an invariant reducing function summed over the pairs i < j alone
Y_invariant_upper_only(z, phi, lambda, Yij) ==
    LET pairs == PairSeq(VecSize(z))
    IN Accumulate(
          [k \in Idx(Len(pairs)) |->
              LET i == pairs[k + 1][1]
                  j == pairs[k + 1][2]
              IN Times(Times(Times(z[i], z[j]),
                             Plus(phi[i][j], Times(z[j], lambda[i][j]))),
                       Yij[i][j])],
          Len(pairs), Zero)

\* MultiFluidInvariantReducingFunction::Y
Y_invariant(z, phi, lambda, Yij) ==
    LET N == VecSize(z)
    IN Accumulate(
          [k \in Idx(N * N) |->
              LET i == k \div N
                  j == k % N
              IN Times(Times(Times(z[i], z[j]),
                             Plus(phi[i][j], Times(z[j], lambda[i][j]))),
                       Yij[i][j])],
          N * N, Zero)

\* DummyReducingFunction: get_Tr and get_rhor are the first mole fraction
DummyReducingFunction == [kind |-> "DummyReducingFunction"]

get_Tr(red, molefracs) ==
    IF red = DummyReducingFunction THEN molefracs[0]
    ELSE IF "phiT" \in DOMAIN red
    THEN Y_invariant(molefracs, red.phiT, red.lambdaT, red.YT)
    ELSE Y(molefracs, red.Tc, red.betaT, red.YT)
get_rhor(red, molefracs) ==
    IF red = DummyReducingFunction THEN molefracs[0]
    ELSE IF "phiT" \in DOMAIN red
    THEN Over(One, Y_invariant(molefracs, red.phiV, red.lambdaV, red.Yv))
    ELSE Over(One, Y(molefracs, red.vc, red.betaV, red.Yv))

\* an evaluation that takes tau as T / Tred
MultiFluid_alphar_tau_inverted(m, T, rho, molefrac) ==
    LET Tred == get_Tr(m.redfunc, molefrac)
        rhored == get_rhor(m.redfunc, molefrac)
        delta == Over(rho, rhored)
        tau == Over(T, Tred)
    IN LCPlus(CorrespondingStatesContribution_alphar(m.corr, tau, delta, molefrac),
              DepartureContribution_alphar(m.dep, tau, delta, molefrac))

\* MultiFluid::alphar(T, rho, molefrac)
MultiFluid_alphar(m, T, rho, molefrac) ==
    LET Tred == get_Tr(m.redfunc, molefrac)
        rhored == get_rhor(m.redfunc, molefrac)
        delta == Over(rho, rhored)
        tau == Over(Tred, T)
    IN LCPlus(CorrespondingStatesContribution_alphar(m.corr, tau, delta, molefrac),
              DepartureContribution_alphar(m.dep, tau, delta, molefrac))

\* an empty std::optional
nullopt == <<>>

\* a total that is always recomputed from the component densities
MultiFluid_alphar_rhovec_sum_only(m, T, rhovec, rhotot) ==
    LET rhotot_ == Accumulate(rhovec, VecSize(rhovec), Zero)
    IN MultiFluid_alphar(m, T, rhotot_,
                         [i \in DOMAIN rhovec |-> Over(rhovec[i], rhotot_)])

\* MultiFluid::alphar(T, rhovec, rhotot)
MultiFluid_alphar_rhovec(m, T, rhovec, rhotot) ==
    LET rhotot_ == IF rhotot # nullopt THEN rhotot
                   ELSE Accumulate(rhovec, VecSize(rhovec), Zero)
    IN MultiFluid_alphar(m, T, rhotot_,
                         [i \in DOMAIN rhovec |-> Over(rhovec[i], rhotot_)])

\* CorrespondingStatesContribution::alphari
alphari(corr, tau, delta, i) == alphar_of(corr.EOSs[i], tau, delta)

\* an adapter that leaves the base's corresponding-states terms out
MultiFluidAdapter_alphar_departure_only(a, T, rho, molefrac) ==
    LET delta == Over(rho, get_rhor(a.redfunc, molefrac))
        tau == Over(get_Tr(a.redfunc, molefrac), T)
    IN DepartureContribution_alphar(a.depfunc, tau, delta, molefrac)

\* MultiFluidAdapter::alphar(T, rho, molefrac)
MultiFluidAdapter_alphar(a, T, rho, molefrac) ==
    LET Tred == get_Tr(a.redfunc, molefrac)
        rhored == get_rhor(a.redfunc, molefrac)
        delta == Over(rho, rhored)
        tau == Over(Tred, T)
    IN LCPlus(CorrespondingStatesContribution_alphar(a.base.corr, tau, delta, molefrac),
              DepartureContribution_alphar(a.depfunc, tau, delta, molefrac))

\* build_dummy_multifluid_model: two DummyEOS pure terms, a 2 x 2 matrix of
\* DummyEOS departure terms, a value-initialized (zero) F
build_dummy_multifluid_model(comps) ==
    MultiFluid(DummyReducingFunction,
               [EOSs |-> [i \in Idx(2) |-> DummyEOS]],
               [F |-> Filled(2, Zero), funcs |-> Filled(2, DummyEOS)])

\* test_dummy: the dummy model evaluated at T = 300, rhovec = {1, 2}
test_dummy ==
    MultiFluid_alphar_rhovec(build_dummy_multifluid_model(<<<<65>>, <<66>>>>),
                             Rat(300, 1), [i \in Idx(2) |-> Rat(i + 1, 1)], nullopt)

----------------------------------------------------------------------------
(* Inputs: catalogs of pairwise records, component lists, flags *)

BIPRecord(n1, n2, c1, c2, bT, gT, bV, gV) ==
    [Name1 |-> n1, Name2 |-> n2, CAS1 |-> c1, CAS2 |-> c2,
     betaT |-> bT, gammaT |-> gT, betaV |-> bV, gammaV |-> gV]

\* Methane-Ethane as in the shipped catalog: F and a departure function
RecMeEt ==
    BIPRecord(Me, Et, CasMe, CasEt, Rat(2, 1), Rat(3, 1), Rat(1, 2), Rat(5, 1))
        @@ [F |-> One, function |-> "Methane-Ethane"]
\* the same pair stored in the other order, a non-zero F and no function
RecEtMe ==
    BIPRecord(Et, Me, CasEt, CasMe, Rat(3, 1), Rat(2, 1), Rat(1, 3), Rat(1, 1))
        @@ [F |-> Rat(2, 1)]
\* names stored in upper case, no F field, an empty function name
RecMEET ==
    BIPRecord(ME, ET, CasMe, CasEt, Rat(5, 1), Rat(1, 1), Rat(2, 3), Rat(3, 1))
        @@ [function |-> ""]
\* a pair whose departure function is not in the departure collection
RecMePr ==
    BIPRecord(Me, Pr, CasMe, CasPr, Rat(1, 2), Rat(2, 1), Rat(3, 2), Rat(1, 1))
        @@ [F |-> One, function |-> "Missing"]
\* a pair with F = 0 and no function
RecEtPr ==
    BIPRecord(Et, Pr, CasEt, CasPr, Rat(3, 2), Rat(1, 1), Rat(2, 1), Rat(2, 1))
        @@ [F |-> Zero]

RecordPool == {RecMeEt, RecEtMe, RecMEET, RecMePr, RecEtPr}

\* sequences without repetition of at most MaxCat records
Catalogs ==
    UNION {{c \in [1..n -> RecordPool] : \A a, b \in 1..n : a # b => c[a] # c[b]}
           : n \in 0..MaxCat}

FlagSets ==
    {[k \in S |-> "Lorentz-Berthelot"] : S \in SUBSET {"estimate", "force-estimate"}}

\* spellings a caller may use for a component: names in either case, CAS numbers
Spellings == {Me, ME, Et, ET, Pr, CasMe, CasEt}

NotCalled == [op |-> "none"]
\* no caller is running on another thread
NoThreads == <<>>
NoBid == [swap \in BOOLEAN |-> NotCalled]
Called(r) == r.op # "none"

\* state points at which a model is evaluated
Temperatures == {Rat(5, 1), Rat(20, 1)}
Densities == {Rat(2, 1), Rat(3, 1)}
\* total densities a caller may pass: sums of component densities and others
Totals == {Rat(4, 1), Rat(5, 1), Rat(6, 1), Rat(10, 1)}
Fractions == {Zero, Rat(1, 4), Rat(1, 2), Rat(3, 4), One}
\* mole fractions of N components: they sum to 1
MoleFractions(N) ==
    {z \in [Idx(N) -> Fractions] : Accumulate(z, N, Zero) = One}
Taus == {Rat(1, 2), Rat(2, 1)}
Deltas == {Rat(1, 3), Rat(3, 1)}

----------------------------------------------------------------------------
(* SpecResolve: the resolver applied to one pair of names *)

InitResolve ==
    /\ collection \in Catalogs
    /\ components \in [1..2 -> Spellings]
    /\ flags \in FlagSets
    /\ ret = NotCalled
    /\ bid = NoBid
    /\ model = NotCalled
    /\ mutant = NotCalled
    /\ threads = NoThreads

\* the pair as given, or in the other order
InOrder(swap) == IF swap THEN <<components[2], components[1]>> ELSE components

GetBIPdep ==
    /\ Len(components) = 2
    /\ ret' = [op |-> "get_BIPdep", args |-> components]
                 @@ get_BIPdep(collection, components, flags)
    /\ UNCHANGED <<collection, components, flags, bid, model, mutant, threads>>

GetBinaryInteractionDouble ==
    /\ Len(components) = 2
    /\ \E swap \in BOOLEAN :
          bid' = [bid EXCEPT ![swap] =
                     [op |-> "get_binary_interaction_double", args |-> InOrder(swap)]
                        @@ get_binary_interaction_double(collection, InOrder(swap), flags)]
    /\ UNCHANGED <<collection, components, flags, ret, model, mutant, threads>>

NextResolve == GetBIPdep \/ GetBinaryInteractionDouble

SpecResolve == InitResolve /\ [][NextResolve]_vars

----------------------------------------------------------------------------
(* SpecMatrices: the pairwise matrices of a list of components *)

\* names a caller may pass as components
ComponentNames == {Me, Et, Pr, ET}

ComponentLists == UNION {[1..n -> ComponentNames] : n \in 1..MaxN}

InitMatrices ==
    /\ collection \in Catalogs
    /\ components \in ComponentLists
    /\ flags \in FlagSets
    /\ ret = NotCalled
    /\ bid = NoBid
    /\ model = NotCalled
    /\ mutant = NotCalled
    /\ threads = NoThreads

GetBIPMatrices ==
    /\ ret' = [op |-> "get_BIP_matrices", args |-> components]
                 @@ get_BIP_matrices(collection, components, flags)
    /\ UNCHANGED <<collection, components, flags, bid, model, mutant, threads>>

GetFMatrix ==
    /\ ret' = [op |-> "get_F_matrix", args |-> components]
                 @@ get_F_matrix(collection, components, flags)
    /\ UNCHANGED <<collection, components, flags, bid, model, mutant, threads>>

GetDepartureFunctionMatrix ==
    /\ ret' = [op |-> "get_departure_function_matrix", args |-> components]
                 @@ get_departure_function_matrix(collection, components, flags)
    /\ UNCHANGED <<collection, components, flags, bid, model, mutant, threads>>

BuildMultifluidModel ==
    /\ ret' = [op |-> "build_multifluid_model", args |-> components]
                 @@ build_multifluid_model(components, collection, flags)
    /\ UNCHANGED <<collection, components, flags, bid, model, mutant, threads>>

NextMatrices ==
    \/ GetBIPdep
    \/ GetBIPMatrices
    \/ GetFMatrix
    \/ GetDepartureFunctionMatrix
    \/ BuildMultifluidModel

SpecMatrices == InitMatrices /\ [][NextMatrices]_vars

----------------------------------------------------------------------------
(* SpecMutant: a base model and the adapters built on it *)

\* entries of an override document
EntryAsymmetric ==
    [BIP |-> [betaT |-> Rat(3, 2), gammaT |-> Rat(4, 1), betaV |-> Rat(2, 3),
              gammaV |-> Rat(1, 1), Fij |-> Rat(1, 2)],
     departure |-> DepGERG]
EntryInvariant ==
    [BIP |-> [phiT |-> Rat(2, 1), lambdaT |-> Rat(1, 4), phiV |-> Rat(1, 1),
              lambdaV |-> Rat(-1, 3), Fij |-> Rat(0, 1)],
     departure |-> DepNone]
EntryBoth ==
    [BIP |-> [betaT |-> Rat(2, 1), gammaT |-> Rat(3, 1), betaV |-> Rat(1, 2),
              gammaV |-> Rat(5, 1), phiT |-> Rat(1, 1), lambdaT |-> Rat(0, 1),
              phiV |-> Rat(3, 2), lambdaV |-> Rat(1, 5), Fij |-> Rat(1, 1)],
     departure |-> DepExponential]
EntryBadDeparture ==
    [BIP |-> EntryBoth.BIP, departure |-> DepBadType]

EntryPool == {EntryAsymmetric, EntryInvariant, EntryBoth, EntryBadDeparture}

\* override documents with one entry for every pair i < j of N components,
\* keyed by the indices as strings
Docs(N) ==
    {[a \in {ToString(i) : i \in {p[1] : p \in UpperPairs(N)}} |->
        LET i == CHOOSE x \in Idx(N) : ToString(x) = a
        IN [b \in {ToString(j) : j \in (i + 1)..(N - 1)} |->
              e[<<i, CHOOSE y \in Idx(N) : ToString(y) = b>>]]]
     : e \in [UpperPairs(N) -> EntryPool]}

\* documents whose pairs all carry the same entry
UniformDocs(N) ==
    {d \in Docs(N) : \A a, c \in DOMAIN d : \A b \in DOMAIN d[a], e \in DOMAIN d[c] :
                        d[a][b] = d[c][e]}
\* a document for N components that also carries an entry for an index >= N
ExtraDocs(N) ==
    {d @@ [a \in {ToString(N)} |-> [b \in {ToString(N + 1)} |-> EntryBoth]]
     : d \in UniformDocs(N)}
\* documents that lack the entry of the pair (0, 1): the outer key "0" is
\* missing, or the inner key "1" is
ShortDocs(N) ==
    IF N < 2 THEN {}
    ELSE {[a \in {ToString(N)} |-> [b \in {ToString(N + 1)} |-> EntryBoth]],
          [a \in {"0"} |-> [b \in {ToString(N)} |-> EntryBoth]]}
\* the documents a caller may pass for a model of N components
DocsFor(N) == Docs(N) \cup ExtraDocs(N) \cup ShortDocs(N)

\* what a call can do once its behaviour is undefined: the library's assertion
\* ends the program, or the read yields some entry and the call goes on
Abort == [ok |-> FALSE, err |-> "abort: assertion failed"]
Outcomes(r, goes_on) == IF "ub" \in DOMAIN r THEN {Abort} \cup goes_on ELSE {r}
\* a call that went on with the entries r was built from still serializes
\* the document jj it was given
GoesOn(r, jj) == IF r.ok THEN Ok(set_meta(r.val, dump(jj))) ELSE r

\* the models build_multifluid_model returns; the catalog and the flags are
\* locals of the builder and are gone when it returns
BuiltModels ==
    {r \in {[op |-> "build_multifluid_model", args |-> cs]
               @@ build_multifluid_model(cs, coll, fl)
            : cs \in ComponentLists, coll \in Catalogs, fl \in FlagSets} : r.ok}

\* models a caller constructs from matrices of its own: neutral betas and one
\* gamma for every entry, no departure
DirectModels ==
    {[op |-> "MultiFluid", args |-> cs]
        @@ Ok(MultiFluid(
                MultiFluidReducingFunction(
                    Filled(Len(cs), One), Filled(Len(cs), g),
                    Filled(Len(cs), One), Filled(Len(cs), g),
                    get_Tcvc(cs).val.Tc, get_Tcvc(cs).val.vc),
                [EOSs |-> get_EOSs(cs)],
                [F |-> Filled(Len(cs), Zero),
                 funcs |-> Filled(Len(cs), <<NullEOSTerm>>)]))
     : cs \in {c \in ComponentLists : get_Tcvc(c).ok}, g \in {One, Rat(2, 1)}}

\* the state after the base model is constructed
InitMutant ==
    /\ collection = <<>>
    /\ components = <<>>
    /\ flags = <<>>
    /\ ret = NotCalled
    /\ bid = NoBid
    /\ model \in BuiltModels \cup DirectModels
    /\ mutant = NotCalled
    /\ threads = NoThreads

BuildMultifluidMutant ==
    /\ mutant.op = "none"
    /\ \E jj \in DocsFor(DOMAIN_N(model.val.redfunc)) :
          \E r \in Outcomes(build_multifluid_mutant(model.val, jj),
                            {GoesOn(build_multifluid_mutant(model.val, d), jj)
                             : d \in UniformDocs(DOMAIN_N(model.val.redfunc))}) :
             mutant' = [op |-> "build_multifluid_mutant", args |-> jj] @@ r
    /\ UNCHANGED <<collection, components, flags, ret, bid, model, threads>>

BuildMultifluidMutantInvariant ==
    /\ mutant.op = "none"
    /\ \E jj \in DocsFor(DOMAIN_N(model.val.redfunc)) :
          \E r \in Outcomes(build_multifluid_mutant_invariant(model.val, jj),
                            {GoesOn(build_multifluid_mutant_invariant(model.val, d), jj)
                             : d \in UniformDocs(DOMAIN_N(model.val.redfunc))}) :
             mutant' = [op |-> "build_multifluid_mutant_invariant", args |-> jj] @@ r
    /\ UNCHANGED <<collection, components, flags, ret, bid, model, threads>>

\* the adapter evaluated at a state point
AdapterAlphar ==
    /\ Called(mutant) /\ mutant.ok /\ ~Called(ret)
    /\ \E T \in Temperatures, rho \in Densities,
          z \in MoleFractions(DOMAIN_N(model.val.redfunc)) :
          ret' = [op |-> "MultiFluidAdapter::alphar",
                  args |-> [T |-> T, rho |-> rho, z |-> z]]
                    @@ Ok(MultiFluidAdapter_alphar(mutant.val, T, rho, z))
    /\ UNCHANGED <<collection, components, flags, bid, model, mutant, threads>>

NextMutant == BuildMultifluidMutant \/ BuildMultifluidMutantInvariant \/ AdapterAlphar

SpecMutant == InitMutant /\ [][NextMutant]_vars

----------------------------------------------------------------------------
(* SpecEval: a constructed model evaluated at a state point *)

\* the number of components of the constructed model
NComp == VecSize(model.val.redfunc.Tc)

InitEval ==
    /\ collection = <<>>
    /\ components = <<>>
    /\ flags = <<>>
    /\ ret = NotCalled
    /\ bid = NoBid
    /\ model \in BuiltModels \cup DirectModels
    /\ mutant = NotCalled
    /\ threads = NoThreads

GetTr ==
    /\ ~Called(ret)
    /\ \E z \in MoleFractions(NComp) :
          ret' = [op |-> "get_Tr", args |-> [z |-> z]]
                    @@ Ok(get_Tr(model.val.redfunc, z))
    /\ UNCHANGED <<collection, components, flags, bid, model, mutant, threads>>

GetRhor ==
    /\ ~Called(ret)
    /\ \E z \in MoleFractions(NComp) :
          ret' = [op |-> "get_rhor", args |-> [z |-> z]]
                    @@ Ok(get_rhor(model.val.redfunc, z))
    /\ UNCHANGED <<collection, components, flags, bid, model, mutant, threads>>

DepartureAlphar ==
    /\ ~Called(ret)
    /\ \E tau \in Taus, delta \in Deltas, z \in MoleFractions(NComp) :
          ret' = [op |-> "DepartureContribution::alphar",
                  args |-> [tau |-> tau, delta |-> delta, z |-> z]]
                    @@ Ok(DepartureContribution_alphar(model.val.dep, tau, delta, z))
    /\ UNCHANGED <<collection, components, flags, bid, model, mutant, threads>>

Alphar ==
    /\ ~Called(ret)
    /\ \E T \in Temperatures, rho \in Densities, z \in MoleFractions(NComp) :
          ret' = [op |-> "alphar", args |-> [T |-> T, rho |-> rho, z |-> z]]
                    @@ Ok(MultiFluid_alphar(model.val, T, rho, z))
    /\ UNCHANGED <<collection, components, flags, bid, model, mutant, threads>>

AlpharRhovec ==
    /\ ~Called(ret)
    /\ \E T \in Temperatures, rhovec \in [Idx(NComp) -> Densities],
          rhotot \in {nullopt} \cup Totals :
          ret' = [op |-> "alphar_rhovec",
                  args |-> [T |-> T, rhovec |-> rhovec, rhotot |-> rhotot]]
                    @@ Ok(MultiFluid_alphar_rhovec(model.val, T, rhovec, rhotot))
    /\ UNCHANGED <<collection, components, flags, bid, model, mutant, threads>>

NextEval == GetTr \/ GetRhor \/ DepartureAlphar \/ Alphar \/ AlpharRhovec

SpecEval == InitEval /\ [][NextEval]_vars

----------------------------------------------------------------------------
(* SpecParts: models a caller assembles from parts, up to three components *)

\* the fluids of the models, in order
PartNames == <<Me, Et, Pr>>
\* a pairwise value that differs from pair to pair
PairValue(v, i, j) == Plus(v, Rat(i + j - 1, 1))
\* matrices of the form get_BIP_matrices gives: beta with reciprocal lower
\* entries, gamma symmetric, both with a zero diagonal
BetaForm(N, b) ==
    [i \in Idx(N) |-> [j \in Idx(N) |->
        IF i < j THEN PairValue(b, i, j)
        ELSE IF i > j THEN Recip(PairValue(b, j, i)) ELSE Zero]]
GammaForm(N, g) ==
    [i \in Idx(N) |-> [j \in Idx(N) |->
        IF i < j THEN PairValue(g, i, j)
        ELSE IF i > j THEN PairValue(g, j, i) ELSE Zero]]
\* matrices of the form build_multifluid_mutant_invariant gives: phi symmetric
\* with ones on the diagonal, lambda antisymmetric
PhiForm(N, p) ==
    [i \in Idx(N) |-> [j \in Idx(N) |->
        IF i < j THEN PairValue(p, i, j)
        ELSE IF i > j THEN PairValue(p, j, i) ELSE One]]
LambdaForm(N, l) ==
    [i \in Idx(N) |-> [j \in Idx(N) |->
        IF i < j THEN PairValue(l, i, j)
        ELSE IF i > j THEN Neg(PairValue(l, j, i)) ELSE Zero]]

PartReducingFunctions(N) ==
    LET Tcvc == get_Tcvc(SubSeq(PartNames, 1, N)).val
    IN {MultiFluidReducingFunction(BetaForm(N, b), GammaForm(N, g),
                                   BetaForm(N, g), GammaForm(N, b), Tcvc.Tc, Tcvc.vc)
        : b \in {One, Rat(2, 1)}, g \in {One, Rat(3, 1)}}
       \cup
       {MultiFluidInvariantReducingFunction(PhiForm(N, p), LambdaForm(N, l),
                                            PhiForm(N, l), LambdaForm(N, p),
                                            Tcvc.Tc, Tcvc.vc)
        : p \in {One, Rat(1, 2)}, l \in {Zero, One}}

\* departure contributions: F all zero or different for every pair, the
\* functions all Null or built from the departure collection
PartDepartures(N) ==
    {[F |-> F, funcs |-> funcs]
     : F \in {Filled(N, Zero),
              [i \in Idx(N) |-> [j \in Idx(N) |->
                  IF i = j THEN Zero ELSE Rat(i + j, 1)]]},
       funcs \in {Filled(N, <<NullEOSTerm>>),
                  [i \in Idx(N) |-> [j \in Idx(N) |->
                      IF i = j THEN <<>>
                      ELSE IF i + j = 1 THEN build_departure_function(DepExponential).val
                      ELSE build_departure_function(DepGERG).val]]}}

PartModelsOf(N) ==
    {[op |-> "MultiFluid", args |-> SubSeq(PartNames, 1, N)]
        @@ Ok(MultiFluid(red, [EOSs |-> get_EOSs(SubSeq(PartNames, 1, N))], dep))
     : red \in PartReducingFunctions(N), dep \in PartDepartures(N)}
PartModels == UNION {PartModelsOf(N) : N \in 1..Len(PartNames)}

InitParts ==
    /\ collection = <<>>
    /\ components = <<>>
    /\ flags = <<>>
    /\ ret = NotCalled
    /\ bid = NoBid
    /\ model \in PartModels
    /\ mutant = NotCalled
    /\ threads = NoThreads

TestDummy ==
    /\ ~Called(ret)
    /\ ret' = [op |-> "test_dummy", args |-> <<>>] @@ Ok(test_dummy)
    /\ UNCHANGED <<collection, components, flags, bid, model, mutant, threads>>

NextParts == GetTr \/ GetRhor \/ DepartureAlphar \/ Alphar \/ AlpharRhovec \/ TestDummy

SpecParts == InitParts /\ [][NextParts]_vars

----------------------------------------------------------------------------
(* SpecMeta: the metadata of a base model and of its adapter *)

\* metadata a caller may store
Metas == {String("first"), String("second")}

\* MultiFluid::set_meta on the base model; an adapter holds a reference to
\* the base, so it sees the base as it now is
SetMeta ==
    /\ \E m \in Metas : model' = [model EXCEPT !.val = set_meta(@, m)]
    /\ mutant' = IF Called(mutant) /\ mutant.ok
                 THEN [mutant EXCEPT !.val.base = model'.val]
                 ELSE mutant
    /\ UNCHANGED <<collection, components, flags, ret, bid, threads>>

\* MultiFluidAdapter::set_meta on the adapter
AdapterSetMeta ==
    /\ Called(mutant) /\ mutant.ok
    /\ \E m \in Metas : mutant' = [mutant EXCEPT !.val = set_meta(@, m)]
    /\ UNCHANGED <<collection, components, flags, ret, bid, model, threads>>

NextMeta ==
    \/ BuildMultifluidMutant
    \/ BuildMultifluidMutantInvariant
    \/ SetMeta
    \/ AdapterSetMeta

SpecMeta == InitMutant /\ [][NextMeta]_vars

----------------------------------------------------------------------------
(* SpecThreads: callers on several threads share one model and one adapter, *)
(* with no locking; a call is the sequence of its reads and writes          *)

Threads == 1..MaxThreads
Instances == {"MultiFluid", "MultiFluidAdapter"}
Idle == [pc |-> "idle"]
Aborted == [pc |-> "aborted"]

\* the state points the callers evaluate
StatePoints ==
    {[T |-> Rat(5, 1), rho |-> Rat(2, 1), z |-> z]
     : z \in {y \in MoleFractions(2) : y[0] = Rat(1, 4)}}

\* the override document of the shared adapter
SharedDoc == CHOOSE d \in UniformDocs(2) : d["0"]["1"] = EntryBoth

\* the string the callers store
ThreadMetas == {String("first")}

\* what a read or a write of meta that races with another write may yield:
\* one of the strings written, or bytes of neither
RacedMetas == ThreadMetas \cup {String("torn")}

InitThreads ==
    /\ collection = <<RecMeEt>>
    /\ components = <<Me, Et>>
    /\ flags = <<>>
    /\ ret = NotCalled
    /\ bid = NoBid
    /\ model = [op |-> "build_multifluid_model", args |-> components]
                   @@ build_multifluid_model(components, collection, flags)
    /\ mutant \in {[op |-> "build_multifluid_mutant", args |-> SharedDoc]
                       @@ build_multifluid_mutant(model.val, SharedDoc),
                    [op |-> "build_multifluid_mutant_invariant", args |-> SharedDoc]
                       @@ build_multifluid_mutant_invariant(model.val, SharedDoc)}
    /\ threads = [t \in Threads |-> Idle]

\* the instance a call is made on; the adapter reads corr through its
\* reference to the base
InstanceOf(on) == IF on = "MultiFluid" THEN model.val ELSE mutant.val
CorrOf(on) == IF on = "MultiFluid" THEN model.val.corr ELSE mutant.val.base.corr
DepOf(on) == IF on = "MultiFluid" THEN model.val.dep ELSE mutant.val.depfunc

Free(t) == threads[t].pc \in {"idle", "returned"}

\* the calls of other threads that access meta of the instance now
Accessing(t, on, pcs) ==
    {u \in Threads \ {t} : threads[u].pc \in pcs /\ threads[u].on = on}

\* thread t enters an access to meta that overlaps those of the threads racing
Enter(t, call, racing) ==
    [u \in Threads |->
        IF u = t THEN call @@ [raced |-> racing # {}]
        ELSE IF u \in racing THEN [threads[u] EXCEPT !.raced = TRUE]
        ELSE threads[u]]

\* alphar(T, rho, molefrac) is called on thread t
CallAlphar(t) ==
    /\ Free(t)
    /\ \E on \in Instances, p \in StatePoints :
          threads' = [threads EXCEPT ![t] =
                         [pc |-> "called", op |-> "alphar", on |-> on, args |-> p]]
    /\ UNCHANGED <<collection, components, flags, ret, bid, model, mutant>>

\* alphar reads redfunc: Tred, rhored, delta, tau
Reduce(t) ==
    /\ threads[t].pc = "called"
    /\ LET c == threads[t]
           red == InstanceOf(c.on).redfunc
           Tred == get_Tr(red, c.args.z)
           rhored == get_rhor(red, c.args.z)
       IN threads' = [threads EXCEPT ![t] =
                         [pc |-> "reduced", delta |-> Over(c.args.rho, rhored),
                          tau |-> Over(Tred, c.args.T)] @@ c]
    /\ UNCHANGED <<collection, components, flags, ret, bid, model, mutant>>

\* alphar reads corr and dep (base.corr and depfunc in the adapter) and returns
Contribute(t) ==
    /\ threads[t].pc = "reduced"
    /\ LET c == threads[t]
           val == LCPlus(CorrespondingStatesContribution_alphar(
                             CorrOf(c.on), c.tau, c.delta, c.args.z),
                         DepartureContribution_alphar(
                             DepOf(c.on), c.tau, c.delta, c.args.z))
       IN threads' = [threads EXCEPT ![t] =
                         [pc |-> "returned", op |-> "alphar", on |-> c.on,
                          args |-> c.args, val |-> val]]
    /\ UNCHANGED <<collection, components, flags, ret, bid, model, mutant>>

\* set_meta(m) is called on thread t and starts to assign meta
CallSetMeta(t) ==
    /\ Free(t)
    /\ \E on \in Instances, m \in ThreadMetas :
          threads' = Enter(t, [pc |-> "writing", op |-> "set_meta", on |-> on,
                               args |-> m],
                           Accessing(t, on, {"writing", "reading"}))
    /\ UNCHANGED <<collection, components, flags, ret, bid, model, mutant>>

\* the assignment of meta completes and set_meta returns
FinishSetMeta(t) ==
    /\ threads[t].pc = "writing"
    /\ LET c == threads[t]
       IN /\ \E m \in (IF c.raced THEN RacedMetas ELSE {c.args}) :
                IF c.on = "MultiFluid"
                THEN /\ model' = [model EXCEPT !.val = set_meta(@, m)]
                     /\ mutant' = [mutant EXCEPT !.val.base = model'.val]
                ELSE /\ mutant' = [mutant EXCEPT !.val = set_meta(@, m)]
                     /\ model' = model
          /\ threads' = [threads EXCEPT ![t] = Idle]
    /\ UNCHANGED <<collection, components, flags, ret, bid>>

\* get_meta() is called on thread t and starts to copy meta
CallGetMeta(t) ==
    /\ Free(t)
    /\ \E on \in Instances :
          threads' = Enter(t, [pc |-> "reading", op |-> "get_meta", on |-> on],
                           Accessing(t, on, {"writing"}))
    /\ UNCHANGED <<collection, components, flags, ret, bid, model, mutant>>

\* the copy of meta completes and get_meta returns it
FinishGetMeta(t) ==
    /\ threads[t].pc = "reading"
    /\ LET c == threads[t]
       IN \E m \in (IF c.raced THEN RacedMetas ELSE {InstanceOf(c.on).meta}) :
             threads' = [threads EXCEPT ![t] =
                            [pc |-> "returned", op |-> "get_meta", val |-> m]]
    /\ UNCHANGED <<collection, components, flags, ret, bid, model, mutant>>

\* a racing access to the string ends the program
Crash ==
    /\ \E t \in Threads : threads[t].pc \in {"writing", "reading"} /\ threads[t].raced
    /\ threads' = [t \in Threads |-> Aborted]
    /\ UNCHANGED <<collection, components, flags, ret, bid, model, mutant>>

NextThreads ==
    \/ \E t \in Threads :
          \/ CallAlphar(t)
          \/ Reduce(t)
          \/ Contribute(t)
          \/ CallSetMeta(t)
          \/ FinishSetMeta(t)
          \/ CallGetMeta(t)
          \/ FinishGetMeta(t)
    \/ Crash

SpecThreads == InitThreads /\ [][NextThreads]_vars

----------------------------------------------------------------------------
(* SpecTerms: term records parsed into terms *)

\* values of an l array: zero, a positive integer, a non-integer
LValues == {Zero, Rat(2, 1), Rat(3, 2)}
LArrays == UNION {[1..k -> LValues] : k \in 1..MaxLen}

\* records with the given fields, each of length L except dev of length Ld
FieldsRecords(fields) ==
    {[f \in fields |-> CoefArray(IF f = dev THEN Ld ELSE L)]
     : L \in 1..MaxLen, dev \in fields, Ld \in 0..MaxLen}
WithL(recs) == {r @@ [l |-> l] : r \in recs, l \in LArrays}
WithType(type, recs) == {[type |-> type] @@ r : r \in recs}

GaussianFields == {"n", "t", "d", "eta", "beta", "gamma", "epsilon"}
PowerRecords == FieldsRecords({"n", "t", "d"}) \cup WithL(FieldsRecords({"n", "t", "d"}))

\* term records of a fluid file, one per allowed type
PureTerms ==
    WithType("ResidualHelmholtzPower", PowerRecords)
    \cup WithType("ResidualHelmholtzGaussian", FieldsRecords(GaussianFields))
    \cup WithType("ResidualHelmholtzNonAnalytic",
                  FieldsRecords({"n", "A", "B", "C", "D", "a", "b", "beta"}))
    \cup WithType("ResidualHelmholtzLemmon2005",
                  WithL(FieldsRecords({"n", "t", "d", "m"})))
    \cup WithType("ResidualHelmholtzGaoB", FieldsRecords(GaussianFields \cup {"b"}))
    \cup WithType("ResidualHelmholtzExponential",
                  WithL(FieldsRecords({"n", "t", "d", "g"})))
BadTypeTerm == [type |-> "ResidualHelmholtzPolynomial", n |-> CoefArray(1)]
NonIntegerPower ==
    [type |-> "ResidualHelmholtzPower", n |-> CoefArray(1), t |-> CoefArray(1),
     d |-> CoefArray(1), l |-> <<Rat(3, 2)>>]
\* the alphar arrays of a fluid file: one term, or two terms of a few kinds
AlpharRecords ==
    {<<term>> : term \in PureTerms \cup {BadTypeTerm}}
    \cup {<<a, b>> : a, b \in {FluidFile(Me).alphar[1], FluidFile(Et).alphar[2],
                               NonIntegerPower, BadTypeTerm}}

\* departure records: the composite forms have Npower leading Power entries,
\* at most as many as n and l hold
CompositeRecords ==
    {r @@ [Npower |-> p]
     : r \in FieldsRecords(GaussianFields) \cup WithL(FieldsRecords(GaussianFields)),
       p \in 0..MaxLen}
ValidNpower(r) ==
    /\ r.Npower <= Len(r.n)
    /\ "l" \in DOMAIN r => r.Npower <= Len(r.l)
DepartureRecords ==
    WithType("Exponential", PowerRecords)
    \cup WithType("GERG-2004", {r \in CompositeRecords : ValidNpower(r)})
    \cup WithType("GERG-2008", {r \in CompositeRecords : ValidNpower(r)})
    \cup WithType("Gaussian+Exponential", {r \in CompositeRecords : ValidNpower(r)})
    \cup {DepNone, DepBadType}

\* what a read past the end of l may yield: a value that is not positive, or
\* one that is
Garbage == {Zero, One}
\* the call goes on with the value read
Continue(r) == [k \in DOMAIN r \ {"ub"} |-> r[k]]

InitTerms ==
    /\ collection = <<>>
    /\ components = <<>>
    /\ flags = <<>>
    /\ ret = NotCalled
    /\ bid = NoBid
    /\ model = NotCalled
    /\ mutant = NotCalled
    /\ threads = NoThreads

GetEOSTerms ==
    /\ ~Called(ret)
    /\ \E alphar \in AlpharRecords, garbage \in Garbage :
          LET r == get_EOS_terms(alphar, garbage)
          IN \E out \in (IF IsPastEnd(r) THEN {Abort, Continue(r)} ELSE {r}) :
                ret' = [op |-> "get_EOS_terms", args |-> alphar] @@ out
    /\ UNCHANGED <<collection, components, flags, bid, model, mutant, threads>>

BuildDepartureFunction ==
    /\ ~Called(ret)
    /\ \E j \in DepartureRecords :
          ret' = [op |-> "build_departure_function", args |-> j]
                    @@ build_departure_function(j)
    /\ UNCHANGED <<collection, components, flags, bid, model, mutant, threads>>

NextTerms == GetEOSTerms \/ BuildDepartureFunction

SpecTerms == InitTerms /\ [][NextTerms]_vars

----------------------------------------------------------------------------
(* Properties of the resolver *)

\* the record's stored name pair, in upper case, is the requested pair in
\* upper case, in either order
NameMatch(el, comps) ==
    LET want == <<toupper(comps[1]), toupper(comps[2])>>
    IN \/ want = <<toupper(el["Name1"]), toupper(el["Name2"])>>
       \/ want = <<toupper(el["Name2"]), toupper(el["Name1"])>>

MatchIndices(coll, comps) == {k \in 1..Len(coll) : NameMatch(coll[k], comps)}

FirstMatch(coll, comps) ==
    coll[CHOOSE k \in MatchIndices(coll, comps) :
            \A m \in MatchIndices(coll, comps) : k <= m]

\* C1: if resolving (A,B) gives (betaT, gammaT, betaV, gammaV), resolving (B,A)
\* against the same catalog gives (1/betaT, gammaT, 1/betaV, gammaV), for every
\* spelling of A and B that the lookup accepts.
C1_OrderIndependent ==
    \A swap \in BOOLEAN :
        (Called(bid[swap]) /\ Called(bid[~swap]) /\ bid[swap].ok) =>
            /\ bid[~swap].ok
            /\ bid[~swap].val = <<Recip(bid[swap].val[1]), bid[swap].val[2],
                                  Recip(bid[swap].val[3]), bid[swap].val[4]>>

\* C2: with "estimate" (and no "force-estimate") in flags and a record matching
\* the pair in the catalog, get_BIPdep returns that record, not the default.
C2_EstimateIsFallbackOnly ==
    (/\ ret.op = "get_BIPdep"
     /\ contains(flags, "estimate") /\ ~contains(flags, "force-estimate")
     /\ MatchIndices(collection, components) # {}) =>
        /\ ret.ok
        /\ ret.val = FirstMatch(collection, components)

C6_ByCASLikeByName ==
    \A k \in 1..Len(collection) :
        (ret.op = "get_BIPdep"
            /\ components = <<collection[k]["CAS1"], collection[k]["CAS2"]>>) =>
            LET byName == get_BIPdep(collection,
                              <<collection[k]["Name1"], collection[k]["Name2"]>>, flags)
            IN byName.ok /\ ret.ok /\ ret.val = byName.val

----------------------------------------------------------------------------
(* Properties of the pairwise matrices *)

MatrixOps == {"get_BIP_matrices", "get_F_matrix", "get_departure_function_matrix"}

\* no record of the catalog matches the pair p of the component list
Unmatched(p) == MatchIndices(collection, PairOf(components, p)) = {}

AllPairs == UpperPairs(Len(components))

\* the entries of the pair p in a returned matrix are the identity default
DefaultEntries(op, m, p) ==
    LET i == p[1]
        j == p[2]
    IN /\ op = "get_BIP_matrices" =>
            \A name \in {"betaT", "gammaT", "betaV", "gammaV"} :
                m[name][i][j] = One /\ m[name][j][i] = One
       /\ op = "get_F_matrix" => m[i][j] = Zero /\ m[j][i] = Zero
       /\ op = "get_departure_function_matrix" =>
            m[i][j] = <<NullEOSTerm>> /\ m[j][i] = <<NullEOSTerm>>

\* C3: with "estimate" in flags and no record matching the pair, get_BIPdep
\* returns exactly betaT = gammaT = betaV = gammaV = 1, F = 0 and no function
\* name; the three matrix builders complete and the pair gets the identity
\* parameters, F = 0 and a Null departure term.
C3_EstimateDefaultCompletes ==
    contains(flags, "estimate") =>
        /\ (ret.op = "get_BIPdep" /\ MatchIndices(collection, components) = {}) =>
              /\ ret.ok
              /\ ret.val = [betaT |-> One, gammaT |-> One, betaV |-> One,
                            gammaV |-> One, F |-> Zero]
              /\ ~contains(ret.val, "function")
        /\ (ret.op \in MatrixOps /\ \A p \in AllPairs : Unmatched(p)) =>
              /\ ret.ok
              /\ \A p \in AllPairs : DefaultEntries(ret.op, ret.val, p)

\* the departure matrix of an unmatched pair, built under "estimate"
C3_Witness ==
    /\ contains(flags, "estimate") /\ Len(collection) > 0
    /\ ret.op = "get_departure_function_matrix"
    /\ Len(components) = 2 /\ Unmatched(<<0, 1>>)
    /\ ret.ok /\ ret.val[0][1] = <<NullEOSTerm>>

\* C4: with no "estimate" in flags and a pair that no record matches in either
\* order, get_BIPdep raises and returns no parameters, and the three matrix
\* builders return no matrix for a component list containing such a pair.
C4_NoMatchNoEstimateRaises ==
    (~contains(flags, "estimate") /\ \E p \in AllPairs : Unmatched(p)) =>
        /\ ret.op = "get_BIPdep" =>
              /\ ~ret.ok /\ ~contains(ret, "val")
              /\ ret.err = "invalid_argument: Can't match this binary pair"
        /\ ret.op \in MatrixOps => ~ret.ok /\ ~contains(ret, "val")

\* a matrix builder called on a list with an unmatched pair, other records present
C4_Witness ==
    /\ ~contains(flags, "estimate") /\ Len(collection) > 0
    /\ \E p \in AllPairs : Unmatched(p)
    /\ ret.op = "get_BIP_matrices" /\ ~ret.ok

\* the record that get_BIPdep resolves for the pair p names no departure function
NoFunctionName(p) ==
    LET r == get_BIPdep(collection, PairOf(components, p), flags)
    IN r.ok /\ (~contains(r.val, "function") \/ r.val["function"] = "")

\* funcs[i][j] and funcs[j][i] hold the same form, the diagonal holds Null terms
SymmetricNullDiagonal(funcs) ==
    \A i, j \in DOMAIN funcs :
        /\ funcs[i][j] = funcs[j][i]
        /\ funcs[i][i] = <<NullEOSTerm>>

\* C10: if the record resolved for a pair has no departure-function name,
\* construction succeeds, the pair has a Null departure term and
\* F(i,j) = F(j,i) = 0, whatever else the record contains.
C10_NoFunctionMeansNullAndZeroF ==
    (AllPairs # {} /\ \A p \in AllPairs : NoFunctionName(p)) =>
        /\ ret.op = "get_F_matrix" =>
              ret.ok /\ \A p \in AllPairs : DefaultEntries(ret.op, ret.val, p)
        /\ ret.op = "get_departure_function_matrix" =>
              ret.ok /\ \A p \in AllPairs : DefaultEntries(ret.op, ret.val, p)

\* the departure term that the record el names
DepartureOf(el) ==
    IF contains(el, "function") /\ el["function"] # ""
    THEN build_departure_function(get_departure_json(el["function"]).val).val
    ELSE <<NullEOSTerm>>

\* the entries of the pair p in the model m are those of the one record el
FromRecord(m, p, el) ==
    LET i == p[1]
        j == p[2]
    IN /\ m.redfunc.betaT[i][j] \in {el["betaT"], Recip(el["betaT"])}
       /\ m.redfunc.betaV[i][j] \in {el["betaV"], Recip(el["betaV"])}
       /\ m.redfunc.gammaT[i][j] = el["gammaT"]
       /\ m.redfunc.gammaV[i][j] = el["gammaV"]
       /\ m.dep.F[i][j] = JGet(el, "F")
       /\ m.dep.funcs[i][j] = DepartureOf(el)

\* C29: in a model built by build_multifluid_model, for every pair i < j the
\* mixing parameters, the factor F(i,j) and the departure term all come from
\* the one record that get_BIPdep returns for (components[i], components[j])
\* with the same catalog and flags.
C29_OneRecordPerPair ==
    (ret.op = "build_multifluid_model" /\ ret.ok) =>
        \A p \in AllPairs :
            LET r == get_BIPdep(collection, PairOf(components, p), flags)
            IN r.ok /\ FromRecord(ret.val, p, r.val)
\* a model of a pair that two records of the catalog match, with differing
\* parameters, factors and departure functions
C29_Witness ==
    /\ ret.op = "build_multifluid_model" /\ ret.ok
    /\ Len(components) = 2 /\ ~contains(flags, "estimate")
    /\ Cardinality(MatchIndices(collection, components)) = 2
    /\ ~FromRecord(ret.val, <<0, 1>>, collection[2])
    /\ ret.val.dep.F[0][1] # Zero

\* C9: in every departure-function matrix the code builds, funcs[i][j] and
\* funcs[j][i] hold the same functional form for i # j, and every diagonal
\* entry holds the Null term, never an empty collection.
C9_FuncsSymmetricNullDiagonal ==
    /\ (ret.op = "get_departure_function_matrix" /\ ret.ok) =>
          SymmetricNullDiagonal(ret.val)
    /\ (ret.op = "build_multifluid_model" /\ ret.ok) =>
          SymmetricNullDiagonal(ret.val.dep.funcs)
    /\ (Called(mutant) /\ mutant.ok) =>
          SymmetricNullDiagonal(mutant.val.depfunc.funcs)

----------------------------------------------------------------------------
(* Properties of the models and their adapters *)

\* beta(i,j) = 1/beta(j,i) and gamma(i,j) = gamma(j,i) off the diagonal
ReciprocalSymmetric(red) ==
    \A i, j \in DOMAIN red.betaT :
        i # j =>
            /\ red.betaT[i][j] = Recip(red.betaT[j][i])
            /\ red.betaV[i][j] = Recip(red.betaV[j][i])
            /\ red.gammaT[i][j] = red.gammaT[j][i]
            /\ red.gammaV[i][j] = red.gammaV[j][i]

\* C7: every asymmetric reducing function the code constructs, in
\* build_multifluid_model and in build_multifluid_mutant with any override
\* document, has betaT(i,j) = 1/betaT(j,i), betaV(i,j) = 1/betaV(j,i),
\* gammaT(i,j) = gammaT(j,i) and gammaV(i,j) = gammaV(j,i) for all i # j.
C7_AsymmetricReducingSymmetry ==
    model.op = "build_multifluid_model" =>
        /\ ReciprocalSymmetric(model.val.redfunc)
        /\ (mutant.op = "build_multifluid_mutant" /\ mutant.ok) =>
              ReciprocalSymmetric(mutant.val.redfunc)

\* C8: every invariant reducing function build_multifluid_mutant_invariant
\* produces has lambdaT(i,j) = -lambdaT(j,i), lambdaV(i,j) = -lambdaV(j,i),
\* phiT(i,j) = phiT(j,i) and phiV(i,j) = phiV(j,i) for all i and j, the
\* diagonal included, whatever gammaT/gammaV the base model holds.
C8_InvariantReducingSymmetry ==
    (mutant.op = "build_multifluid_mutant_invariant" /\ mutant.ok) =>
        LET red == mutant.val.redfunc
        IN \A i, j \in DOMAIN red.phiT :
              /\ red.lambdaT[i][j] = Neg(red.lambdaT[j][i])
              /\ red.lambdaV[i][j] = Neg(red.lambdaV[j][i])
              /\ red.phiT[i][j] = red.phiT[j][i]
              /\ red.phiV[i][j] = red.phiV[j][i]

\* the index pairs an override document carries are exactly the pairs i < j
\* of N components
DocPairs(jj) == UNION {{<<a, b>> : b \in DOMAIN jj[a]} : a \in DOMAIN jj}
DocMatches(jj, N) ==
    DocPairs(jj) = {<<ToString(q[1]), ToString(q[2])>> : q \in UpperPairs(N)}

\* C14: build_multifluid_mutant raises and returns no model whenever the index
\* pairs of the override document are not exactly the pairs i < j < N of the
\* base model: an entry is missing, or an entry for an index >= N is present.
C14_MismatchedDocumentFails ==
    (mutant.op = "build_multifluid_mutant"
        /\ ~DocMatches(mutant.args, DOMAIN_N(model.val.redfunc))) =>
        ~mutant.ok /\ ~contains(mutant, "val")

\* the mole fractions of pure component i among N
PureComponent(N, i) == [k \in Idx(N) |-> IF k = i THEN One ELSE Zero]

\* C15: in an adapter built by either mutant builder the corresponding-states
\* term of every component i is the base model's EOSs[i].alphar(tau, delta),
\* so at pure i the adapter evaluates to exactly that term at its own
\* (tau, delta); and building the adapter changes nothing in the base model.
C15_MutantKeepsPureTermsAndBase ==
    /\ [](\A i \in Idx(DOMAIN_N(model.val.redfunc)) :
            /\ (Called(mutant) /\ mutant.ok) =>
                  \A tau \in Taus, delta \in Deltas :
                      alphari(mutant.val.base.corr, tau, delta, i)
                        = TermsAlphar(model.val.corr.EOSs[i], tau, delta)
            /\ (ret.op = "MultiFluidAdapter::alphar"
                   /\ ret.args.z = PureComponent(DOMAIN_N(model.val.redfunc), i)) =>
                  ret.val = TermsAlphar(model.val.corr.EOSs[i],
                               Over(get_Tr(mutant.val.redfunc, ret.args.z), ret.args.T),
                               Over(ret.args.rho, get_rhor(mutant.val.redfunc, ret.args.z))))
    /\ [][model' = model]_vars

\* an adapter of a two-component base, evaluated at a pure component
C15_Witness ==
    /\ mutant.op = "build_multifluid_mutant" /\ mutant.ok
    /\ DOMAIN_N(model.val.redfunc) = 2
    /\ ret.op = "MultiFluidAdapter::alphar"
    /\ ret.args.z = PureComponent(2, 1) /\ ret.val # {}

\* C13: once the metadata of a model has been set (for an adapter, by its
\* builder), no later set_meta call changes it; and no operation changes any
\* other field of a model or of an adapter.
C13_MetaSetOnce ==
    [][/\ model.val.meta # String("") => model'.val.meta = model.val.meta
       /\ (Called(mutant) /\ mutant.ok) =>
             /\ mutant'.val.meta = mutant.val.meta
             /\ mutant'.val.redfunc = mutant.val.redfunc
             /\ mutant'.val.depfunc = mutant.val.depfunc
       /\ model'.val.redfunc = model.val.redfunc
       /\ model'.val.corr = model.val.corr
       /\ model'.val.dep = model.val.dep]_vars

\* an entry of the document is well formed for the invariant builder
WellFormedInvariantEntry(entry) ==
    /\ \A key \in {"phiT", "lambdaT", "phiV", "lambdaV", "Fij"} :
          contains(entry, "BIP") /\ contains(entry["BIP"], key)
    /\ contains(entry, "departure") /\ build_departure_function(entry["departure"]).ok

SymmetricZeroDiagonal(F) ==
    /\ \A i, j \in DOMAIN F : F[i][j] = F[j][i] /\ F[i][j] # Uninit
    /\ \A i \in DOMAIN F : F[i][i] = Zero

\* C27: every matrix of interaction factors the code builds, in get_F_matrix
\* (for build_multifluid_model), build_multifluid_mutant and
\* build_multifluid_mutant_invariant, is symmetric with a zero diagonal and
\* has every entry assigned.
C27_FSymmetricZeroDiagonal ==
    /\ (Called(model) /\ model.op = "build_multifluid_model") =>
          SymmetricZeroDiagonal(model.val.dep.F)
    /\ (Called(mutant) /\ mutant.ok) => SymmetricZeroDiagonal(mutant.val.depfunc.F)
\* a base and an adapter of two components, both with a non-zero factor
C27_Witness ==
    /\ Called(model) /\ model.op = "build_multifluid_model"
    /\ Called(mutant) /\ mutant.ok
    /\ DOMAIN_N(model.val.redfunc) = 2
    /\ model.val.dep.F[0][1] # Zero
    /\ mutant.val.depfunc.F[0][1] # Zero

\* the fields that alphar reads, of the model and of the adapter
ReadFields(m, a) ==
    <<m.val.redfunc, m.val.corr, m.val.dep,
      a.val.redfunc, a.val.depfunc, a.val.base.corr>>

\* what the call c returns when no other call runs
AloneValue(c) ==
    IF c.on = "MultiFluid"
    THEN MultiFluid_alphar(model.val, c.args.T, c.args.rho, c.args.z)
    ELSE MultiFluidAdapter_alphar(mutant.val, c.args.T, c.args.rho, c.args.z)

Returns(t) == threads[t].pc # "returned" /\ threads'[t].pc = "returned"

\* C22: whatever alphar, get_meta and set_meta calls run at once on a model
\* or an adapter, no step writes a field that alphar reads, and every alphar
\* call that returns returns the value it returns when run alone.
C22_ConcurrentAlpharUnaffected ==
    [][/\ ReadFields(model', mutant') = ReadFields(model, mutant)
       /\ \A t \in Threads :
             (Returns(t) /\ threads'[t].op = "alphar") =>
                 threads'[t].val = AloneValue(threads'[t])]_vars
\* an alphar call is between its reads of redfunc and of corr and dep while
\* a set_meta call is assigning meta of the same instance, which an earlier
\* set_meta call has already changed
C22_Witness ==
    \E t, u \in Threads :
        /\ threads[t].pc = "reduced"
        /\ threads[u].pc = "writing"
        /\ threads[u].on = threads[t].on
        /\ InstanceOf(threads[t].on).meta \in ThreadMetas

\* C23: right after build_multifluid_mutant or
\* build_multifluid_mutant_invariant returns an adapter, the adapter's
\* metadata is the serialized override document jj.dump(), and the base
\* model, its metadata included, is as it was before the call.
C23_BuilderStoresDocument ==
    [][(~Called(mutant) /\ Called(mutant') /\ mutant'.ok) =>
          (/\ mutant'.val.meta = dump(mutant'.args)
           /\ model' = model
           /\ mutant'.val.base.meta = model.val.meta)]_vars
\* an adapter built on a base whose metadata had been set
C23_Witness ==
    /\ Called(mutant) /\ mutant.ok
    /\ mutant.val.meta = dump(mutant.args)
    /\ mutant.val.base.meta = String("first")

----------------------------------------------------------------------------
(* Properties of the evaluation *)

\* C11: a model with one component, evaluated at z = [1], reduces to the pure
\* term: the departure contribution is 0, get_Tr is Tc[0], get_rhor is
\* 1/vc[0], and alphar(T, rho, z) is EOSs[0].alphar(Tc[0]/T, rho*vc[0]).
C11_SingleComponentReducesToPure ==
    (Called(model) /\ Called(ret) /\ NComp = 1
        /\ ret.op \in {"get_Tr", "get_rhor", "DepartureContribution::alphar", "alphar"}
        /\ ret.args.z = [i \in Idx(1) |-> One]) =>
        LET red == model.val.redfunc
        IN /\ ret.op = "DepartureContribution::alphar" => ret.val = {}
           /\ ret.op = "get_Tr" => ret.val = red.Tc[0]
           /\ ret.op = "get_rhor" => ret.val = Over(One, red.vc[0])
           /\ ret.op = "alphar" =>
                 ret.val = TermsAlphar(model.val.corr.EOSs[0],
                                       Over(red.Tc[0], ret.args.T),
                                       Times(ret.args.rho, red.vc[0]))

\* a one-component model evaluated, with a pure term that is not Null
C11_Witness ==
    /\ Called(model) /\ NComp = 1
    /\ ret.op = "alphar" /\ ret.val # {}

\* C12: alphar(T, rhovec, rhotot) with no total is alphar(T, rhovec, sum of
\* rhovec), and a supplied total is both the divisor of the mole fractions
\* and the density passed on.
C12_TotalOverride ==
    (Called(model) /\ ret.op = "alphar_rhovec") =>
        LET rhovec == ret.args.rhovec
            total == IF ret.args.rhotot = nullopt
                     THEN Accumulate(rhovec, VecSize(rhovec), Zero)
                     ELSE ret.args.rhotot
        IN ret.val = MultiFluid_alphar(model.val, ret.args.T, total,
                        [i \in DOMAIN rhovec |-> Over(rhovec[i], total)])

\* a call with a total that is not the sum of the component densities
C12_Witness ==
    /\ Called(model) /\ ret.op = "alphar_rhovec"
    /\ ret.args.rhotot # nullopt
    /\ ret.args.rhotot # Accumulate(ret.args.rhovec, VecSize(ret.args.rhovec), Zero)
    /\ ret.val # {}

\* the reduced state a model evaluates its terms at
TauOf(m, T, z) == Over(get_Tr(m.redfunc, z), T)
DeltaOf(m, rho, z) == Over(rho, get_rhor(m.redfunc, z))
ZeroF(m) == \A i, j \in DOMAIN m.dep.F : m.dep.F[i][j] = Zero
HasDepartureTerms(m) ==
    \E i, j \in DOMAIN m.dep.funcs :
        i < j /\ \E k \in DOMAIN m.dep.funcs[i][j] : m.dep.funcs[i][j][k] # NullEOSTerm

\* C24: for a model whose factors F are all zero, alphar is the
\* corresponding-states contribution alone, whatever the departure functions
\* are; the dummy model of build_dummy_multifluid_model (pure terms tau*delta,
\* F zero) at T = 300, rhovec = [1, 2] gives corr.alphar(tau, delta, z) with
\* z = [1/3, 2/3].
C24_ZeroFIsCorrespondingStates ==
    /\ (ret.op = "alphar" /\ ZeroF(model.val)) =>
          ret.val = CorrespondingStatesContribution_alphar(model.val.corr,
                        TauOf(model.val, ret.args.T, ret.args.z),
                        DeltaOf(model.val, ret.args.rho, ret.args.z), ret.args.z)
    /\ ret.op = "test_dummy" =>
          /\ ret.val = CorrespondingStatesContribution_alphar(
                           [EOSs |-> [i \in Idx(2) |-> DummyEOS]],
                           Rat(1, 900), Rat(9, 1),
                           [i \in Idx(2) |-> Rat(i + 1, 3)])
          /\ ret.val = {<<Rat(1, 100), Unit>>}
\* a mixture of three with departure functions, F zero, no fraction zero
C24_Witness ==
    /\ ret.op = "alphar" /\ ZeroF(model.val) /\ HasDepartureTerms(model.val)
    /\ NComp = 3
    /\ \A i \in DOMAIN ret.args.z : ret.args.z[i] # Zero
    /\ ret.val # {}

IsAsymmetric(red) == "betaT" \in DOMAIN red
NaN == <<0, 0>>
\* the denominators MultiFluidReducingFunction::Y divides by
Denominators(z, beta) ==
    {Plus(Times(square(beta[p[1]][p[2]]), z[p[1]]), z[p[2]])
     : p \in UpperPairs(VecSize(z))}

\* C25: for every number of components and every composition with
\* non-negative fractions that sum to 1, fractions that are zero included,
\* MultiFluidReducingFunction::Y divides by no zero: beta(i,j)^2*z_i + z_j
\* is non-zero for every pair i < j, and get_Tr and get_rhor are numbers.
C25_NoDivisionByZero ==
    (ret.op \in {"get_Tr", "get_rhor"} /\ IsAsymmetric(model.val.redfunc)) =>
        /\ Zero \notin Denominators(ret.args.z,
                       IF ret.op = "get_Tr" THEN model.val.redfunc.betaT
                       ELSE model.val.redfunc.betaV)
        /\ ret.val # NaN

\* the term of the pair p = <<i, j>> in the departure sum
PairTerm(dep, tau, delta, z, p) ==
    LCTimes(Times(Times(z[p[1]], z[p[2]]), dep.F[p[1]][p[2]]),
            alphar_of(dep.funcs[p[1]][p[2]], tau, delta))
\* the sum over the pairs in S of the coefficient their terms give e
RECURSIVE SumCoef(_, _, _, _, _, _)
SumCoef(dep, tau, delta, z, S, e) ==
    IF S = {} THEN Zero
    ELSE LET p == CHOOSE q \in S : TRUE
         IN Plus(Coef(PairTerm(dep, tau, delta, z, p), e),
                 SumCoef(dep, tau, delta, z, S \ {p}, e))
\* each pair i < j counted once
UpperPairSum(dep, tau, delta, z) ==
    LET evals == UNION {{q[2] : q \in PairTerm(dep, tau, delta, z, p)}
                        : p \in UpperPairs(VecSize(z))}
    IN {q \in {<<SumCoef(dep, tau, delta, z, UpperPairs(VecSize(z)), e), e>>
                : e \in evals} : q[1] # Zero}
\* dep with other entries below and on the diagonal
LowerAltered(dep) ==
    [F |-> [i \in DOMAIN dep.F |-> [j \in DOMAIN dep.F |->
               IF i < j THEN dep.F[i][j] ELSE Rat(7, 1)]],
     funcs |-> [i \in DOMAIN dep.F |-> [j \in DOMAIN dep.F |->
               IF i < j THEN dep.funcs[i][j]
               ELSE build_departure_function(DepGERG).val]]]

\* C26: DepartureContribution::alphar adds, for N components, exactly the
\* N(N-1)/2 terms z_i*z_j*F(i,j)*funcs[i][j].alphar(tau, delta) with i < j,
\* no diagonal term and no term with i > j: its result does not depend on
\* F(j,i), funcs[j][i] or the diagonal.
C26_EachPairOnce ==
    ret.op = "DepartureContribution::alphar" =>
        /\ Cardinality(UpperPairs(NComp)) = (NComp * (NComp - 1)) \div 2
        /\ ret.val = UpperPairSum(model.val.dep, ret.args.tau, ret.args.delta, ret.args.z)
        /\ ret.val = DepartureContribution_alphar(LowerAltered(model.val.dep),
                         ret.args.tau, ret.args.delta, ret.args.z)
\* three components, all present, with factors and departure functions
C26_Witness ==
    /\ ret.op = "DepartureContribution::alphar"
    /\ NComp = 3 /\ ~ZeroF(model.val) /\ HasDepartureTerms(model.val)
    /\ \A i \in DOMAIN ret.args.z : ret.args.z[i] # Zero
    /\ Cardinality(ret.val) = 2

\* the sum over i of the sum over j of z_i z_j (phi_ij + z_j lambda_ij) Y_ij
FullDoubleSum(z, phi, lambda, Yij) ==
    Accumulate(
        [i \in Idx(VecSize(z)) |->
            Accumulate(
                [j \in Idx(VecSize(z)) |->
                    Times(Times(Times(z[i], z[j]),
                                Plus(phi[i][j], Times(z[j], lambda[i][j]))),
                          Yij[i][j])],
                VecSize(z), Zero)],
        VecSize(z), Zero)

\* C28: the invariant reducing function adds one term for every ordered
\* pair (i, j) of 0..N-1 x 0..N-1, both orders and the diagonal; its YT and
\* Yv are symmetric, do not depend on phi or lambda, and have the diagonal
\* YT(i,i) = Tc[i], Yv(i,i) = vc[i].
C28_InvariantFullDoubleSum ==
    (ret.op \in {"get_Tr", "get_rhor"} /\ ~IsAsymmetric(model.val.redfunc)) =>
        LET red == model.val.redfunc
            N == DOMAIN_N(red)
            other == MultiFluidInvariantReducingFunction(
                        Filled(N, Rat(7, 1)), Filled(N, Rat(5, 1)),
                        Filled(N, Rat(3, 1)), Filled(N, Rat(2, 1)), red.Tc, red.vc)
        IN /\ \A i, j \in Idx(N) :
                 red.YT[i][j] = red.YT[j][i] /\ red.Yv[i][j] = red.Yv[j][i]
           /\ \A i \in Idx(N) : red.YT[i][i] = red.Tc[i] /\ red.Yv[i][i] = red.vc[i]
           /\ red.YT = other.YT /\ red.Yv = other.Yv
           /\ ret.op = "get_Tr" =>
                 ret.val = FullDoubleSum(ret.args.z, red.phiT, red.lambdaT, red.YT)
           /\ ret.op = "get_rhor" =>
                 ret.val = Over(One, FullDoubleSum(ret.args.z, red.phiV, red.lambdaV,
                                                   red.Yv))
\* an invariant reducing function of three components, all present
C28_Witness ==
    /\ ret.op = "get_Tr" /\ ~IsAsymmetric(model.val.redfunc)
    /\ NComp = 3
    /\ \A i \in DOMAIN ret.args.z : ret.args.z[i] # Zero
    /\ model.val.redfunc.lambdaT[0][1] # Zero

\* m with v in every entry below and on the diagonal
Altered(m, v) ==
    [i \in DOMAIN m |-> [j \in DOMAIN m |-> IF i < j THEN m[i][j] ELSE v]]
\* a reducing function with the entries of red above the diagonal
SameUpper(red, v) ==
    MultiFluidReducingFunction(Altered(red.betaT, v), Altered(red.gammaT, v),
                               Altered(red.betaV, v), Altered(red.gammaV, v),
                               red.Tc, red.vc)

\* C30: get_Tr and get_rhor of the asymmetric reducing function depend on
\* the pairwise entries above the diagonal alone: an instance with the same
\* Tc, vc and the same betaT, gammaT, betaV, gammaV at every (i, j) with
\* i < j returns the same values, whatever it holds at (j, i) and (i, i).
C30_UpperTriangleOnly ==
    (ret.op \in {"get_Tr", "get_rhor"} /\ IsAsymmetric(model.val.redfunc)) =>
        \A v \in {Zero, Rat(7, 1), NaN} :
            ret.val = (IF ret.op = "get_Tr"
                       THEN get_Tr(SameUpper(model.val.redfunc, v), ret.args.z)
                       ELSE get_rhor(SameUpper(model.val.redfunc, v), ret.args.z))
\* three components, all present, and a value that is a number
C30_Witness ==
    /\ ret.op = "get_rhor" /\ IsAsymmetric(model.val.redfunc)
    /\ NComp = 3
    /\ \A i \in DOMAIN ret.args.z : ret.args.z[i] # Zero
    /\ ret.val # NaN
    /\ model.val.redfunc.betaV[1][0] # Zero

----------------------------------------------------------------------------
(* Properties of term construction *)

IsIntegral(x) == x[2] = 1
\* the record has an l array with a non-integer among its first k entries
NonIntegerL(term, k) ==
    /\ contains(term, "l")
    /\ \E i \in 1..k : i \in DOMAIN term["l"] /\ ~IsIntegral(term["l"][i])
\* the paths that store an l array, and how much of it each one stores
PureLTypes ==
    {"ResidualHelmholtzPower", "ResidualHelmholtzLemmon2005",
     "ResidualHelmholtzExponential"}
CompositeTypes == {"GERG-2004", "GERG-2008", "Gaussian+Exponential"}

\* C17: every path that stores an l array (pure Power, Lemmon2005 and
\* Exponential; departure Exponential; the leading Power sub-term of the
\* composite departure forms) raises an error when a stored entry of l is not
\* an integer.
C17_NonIntegerLRejected ==
    /\ (/\ ret.op = "get_EOS_terms"
        /\ Len(ret.args) = 1
        /\ ret.args[1].type \in PureLTypes
        /\ NonIntegerL(ret.args[1], MaxLen))
       => ~ret.ok
    /\ (/\ ret.op = "build_departure_function"
        /\ ret.args.type = "Exponential"
        /\ NonIntegerL(ret.args, MaxLen))
       => ~ret.ok
    /\ (/\ ret.op = "build_departure_function"
        /\ ret.args.type \in CompositeTypes
        /\ NonIntegerL(ret.args, ret.args.Npower))
       => ~ret.ok

\* the coefficient arrays each form requires
RequiredArrays(term) ==
    LET type == term.type
    IN IF type \in {"ResidualHelmholtzPower", "Exponential"}
       THEN {"n", "t", "d"} \cup (IF contains(term, "l") THEN {"l"} ELSE {})
       ELSE IF type = "ResidualHelmholtzGaussian" \/ type \in CompositeTypes
       THEN GaussianFields
       ELSE IF type = "ResidualHelmholtzNonAnalytic"
       THEN {"n", "A", "B", "C", "D", "a", "b", "beta"}
       ELSE IF type = "ResidualHelmholtzLemmon2005" THEN {"n", "t", "d", "m", "l"}
       ELSE IF type = "ResidualHelmholtzGaoB" THEN GaussianFields \cup {"b"}
       ELSE IF type = "ResidualHelmholtzExponential" THEN {"n", "t", "d", "g", "l"}
       ELSE {}
Mismatched(term) ==
    \E a, b \in RequiredArrays(term) : Len(term[a]) # Len(term[b])

\* C18: every term-construction path raises an error, and builds no term,
\* when the coefficient arrays its form requires differ in length.
C18_LengthMismatchRejected ==
    /\ (/\ ret.op = "get_EOS_terms"
        /\ Len(ret.args) = 1
        /\ Mismatched(ret.args[1]))
       => ~ret.ok
    /\ (ret.op = "build_departure_function" /\ Mismatched(ret.args))
       => ~ret.ok

\* the Power terms of a returned collection
PowerTermsOf(r) ==
    IF r.ok THEN {r.val[k] : k \in {i \in DOMAIN r.val : r.val[i].kind = "Power"}}
    ELSE {}
PowerTermWellFormed(term) ==
    /\ Len(term.c) = Len(term.n)
    /\ Len(term.l) = Len(term.n)
    /\ Len(term.l_i) = Len(term.n)
    /\ \A k \in DOMAIN term.c :
          term.c[k] = (IF k \in DOMAIN term.l /\ IsPositive(term.l[k])
                       THEN One ELSE Zero)

\* C19: in every constructed Power term c_k is 1 exactly when l_k > 0 and 0
\* otherwise, and c, l and l_i have the length of n, on the pure path, the
\* departure Exponential path and the composite departure paths.
C19_PowerTermCoefficients ==
    ret.op \in {"get_EOS_terms", "build_departure_function"}
    => \A term \in PowerTermsOf(ret) : PowerTermWellFormed(term)

\* the entries of a from position lo to position hi
Slice(a, lo, hi) == [k \in 1..(hi - lo + 1) |-> a[lo + k - 1]]

\* C21: a composite departure record (GERG-2004, GERG-2008,
\* Gaussian+Exponential) whose arrays all have length N, with Npower in 0..N,
\* gives exactly two sub-terms in this order: a Power term of the first Npower
\* entries of n, t, d (and l), then a Gaussian-type term of the remaining
\* N - Npower entries of n, t, d, eta, beta, gamma, epsilon; every position
\* lands in exactly one sub-term, in its original order.
C21_CompositeSplit ==
    (/\ ret.op = "build_departure_function"
     /\ ret.args.type \in CompositeTypes
     /\ ~Mismatched(ret.args)
     /\ "l" \in DOMAIN ret.args => Len(ret.args.l) = Len(ret.args.n)) =>
        LET j == ret.args
            N == Len(j.n)
            P == j.Npower
        IN /\ ret.ok
           /\ Len(ret.val) = 2
           /\ ret.val[1].kind = "Power"
           /\ ret.val[2].kind = (IF j.type = "Gaussian+Exponential"
                                 THEN "Gaussian" ELSE "GERG2004")
           /\ \A f \in {"n", "t", "d"} :
                 /\ ret.val[1][f] = Slice(j[f], 1, P)
                 /\ ret.val[1][f] \o ret.val[2][f] = j[f]
           /\ ret.val[1].l = (IF "l" \in DOMAIN j THEN Slice(j.l, 1, P)
                              ELSE [k \in 1..P |-> Zero])
           /\ \A f \in GaussianFields : ret.val[2][f] = Slice(j[f], P + 1, N)
           /\ DOMAIN ret.val[2] = GaussianFields \cup {"kind"}
\* a record of two entries split into one Power entry and one Gaussian entry
C21_Witness ==
    /\ ret.op = "build_departure_function"
    /\ ret.args.type \in CompositeTypes
    /\ ret.ok
    /\ Len(ret.args.n) = 2 /\ ret.args.Npower = 1
    /\ "l" \in DOMAIN ret.args
    /\ Len(ret.val[1].n) = 1 /\ Len(ret.val[2].n) = 1

DepartureTypes == {"Exponential", "GERG-2004", "GERG-2008", "Gaussian+Exponential", "none"}
AllowedTypes == {allowed_types[k] : k \in DOMAIN allowed_types}

\* C20: a type tag outside the allowed ones is an error of construction and
\* yields no collection: build_departure_function raises for a type outside
\* its five, and get_EOS_terms raises the type error when any term of the
\* record, the last one included, has a type outside its six, whatever
\* building the terms before it would have done.
C20_UnknownTypeRejected ==
    /\ (/\ ret.op = "get_EOS_terms"
        /\ \E k \in DOMAIN ret.args : ret.args[k].type \notin AllowedTypes)
       => (~ret.ok /\ ret.err = "invalid_argument: Bad type"
           /\ "val" \notin DOMAIN ret)
    /\ (/\ ret.op = "build_departure_function"
        /\ ret.args.type \notin DepartureTypes)
       => (~ret.ok /\ ret.err = "invalid_argument: Bad departure term type"
           /\ "val" \notin DOMAIN ret)
\* the bad term is the last one, after a term whose building would fail
C20_Witness ==
    /\ ret.op = "get_EOS_terms"
    /\ ret.args = <<NonIntegerPower, BadTypeTerm>>
    /\ ret.err = "invalid_argument: Bad type"

====
